---- MODULE Spec2Model ----
(***************************************************************************)
(* Phrase query processor: record file construction, the standard and the  *)
(* nextword (biword) index builders, and the two phrase query resolvers.   *)
(*                                                                         *)
(* Text is modelled as sequences of character codes (a term "a" is <<97>>, *)
(* the number 10 printed is <<49, 48>>), a record line as the sequence of  *)
(* its comma separated fields, the inverted file as a sequence of bytes,   *)
(* and a Python dict as a function whose DOMAIN is the set of keys (as a   *)
(* sequence of entries where the code depends on insertion order).         *)
(***************************************************************************)
EXTENDS Integers, Sequences, FiniteSets, TLC

VARIABLES
    nextword,            \* args.nextword
    rebuild_index,       \* args.rebuild_index
    exists,              \* os.path.exists of the record file and of the inverted file
    metadata_line,       \* the record file starts with the metadata line
    indexed,             \* the documents whose index is whole on disk (<<>>: no whole index)
    collection,          \* the normalized documents: <<[doc_id, terms]>>
    id_line,             \* the collection file after its last "<P ID=", to the end of the line
    pc,                  \* position of the run
    error,               \* the exception that ended the run, "" if none
    record_file,         \* lines of the sorted record file (after the metadata line)
    line_no,             \* next line of record_file the index builder reads
    lexicon,             \* IndexBuilder.lexicon: [terms, term_ids]
    term_ids_inv,        \* IndexBuilder.term_ids_inv
    current_offset,      \* IndexBuilder.current_offset
    inverted_file,       \* bytes of the inverted file
    prev_next_term,      \* IndexBuilder.prev_next_term (None or [term, doc_ids])
    current_first_term,  \* IndexBuilder.current_first_term
    lexicon_file,        \* the pickled lexicon (None until written)
    queries,             \* QueryProcessor.queries: <<<<query_id, terms>>>>
    results,             \* QueryProcessor.results: <<[query_id, doc_matches]>>
    file_pos,            \* read cursor of QueryProcessor.inverted_file, in bytes
    qstate,              \* per-query fields of NextwordQueryProcessor
    fetched,             \* term pairs passed to find_postings, in call order, per query
    results_file,        \* lines of the results file this run writes (None until then)
    int_args             \* the integers passed to write_int one by one (IntSpec only)

vars == <<nextword, rebuild_index, exists, metadata_line, indexed, collection, id_line, pc, error, record_file, line_no, lexicon,
          term_ids_inv, current_offset, inverted_file, prev_next_term,
          current_first_term, lexicon_file, queries, results, file_pos,
          qstate, fetched, results_file, int_args>>

-----------------------------------------------------------------------------
(* Bounds of the model *)

MaxTokens == 5
MaxQueryLen == 3
MaxEarlierTokens == 1

(* Program constants *)

INT_BYTES == 4

\* None where a term is expected (no term is the text <<0>>)
None == <<0>>

\* IndexBuilder.prev_next_term = None
NoBuffer == [none |-> TRUE]

\* character codes
ChComma == 44
ChZero == 48
ChMinus == 45
ChPlus == 43
ChP == 80
ChQ == 81
ChUnderscore == 95
ChSpace == 32
ChNewline == 10
ChLess == 60
ChGreater == 62
ChSlash == 47

TermA == <<97>>
TermB == <<98>>
Terms == {TermA, TermB}
EndMark == <<ChUnderscore>>

\* document ids of the collection file, in file order
DocIdList == <<2, 10>>
NumDocs == Len(DocIdList)

\* query ids of the query file, in file order
QueryIdList == <<7, 3>>

-----------------------------------------------------------------------------
(* Generic helpers *)

Min(a, b) == IF a < b THEN a ELSE b

RECURSIVE SeqsUpTo(_, _)
SeqsUpTo(S, n) ==
    IF n = 0 THEN {<<>>}
    ELSE LET shorter == SeqsUpTo(S, n - 1)
         IN  shorter \cup {Append(s, x) : s \in {t \in shorter : Len(t) = n - 1}, x \in S}

RECURSIVE Concat(_)
Concat(ss) == IF ss = <<>> THEN <<>> ELSE Head(ss) \o Concat(Tail(ss))

Range(s) == {s[i] : i \in DOMAIN s}

\* lexicographic order on sequences of character codes (strict)
RECURSIVE TextLess(_, _)
TextLess(s, t) ==
    IF t = <<>> THEN FALSE
    ELSE IF s = <<>> THEN TRUE
    ELSE IF Head(s) # Head(t) THEN Head(s) < Head(t)
    ELSE TextLess(Tail(s), Tail(t))

\* a line as text: its fields joined by commas
RECURSIVE Join(_, _)
Join(fields, sep) ==
    IF fields = <<>> THEN <<>>
    ELSE IF Len(fields) = 1 THEN fields[1]
    ELSE fields[1] \o sep \o Join(Tail(fields), sep)

\* str(n) for an integer n
RECURSIVE StrNat(_)
StrNat(n) == IF n < 10 THEN <<ChZero + n>> ELSE Append(StrNat(n \div 10), ChZero + (n % 10))

Str(n) == IF n < 0 THEN <<ChMinus>> \o StrNat(-n) ELSE StrNat(n)

\* '{n:0{width}d}'.format(...)
RECURSIVE ZeroPad(_, _)
ZeroPad(s, width) == IF Len(s) >= width THEN s ELSE ZeroPad(<<ChZero>> \o s, width)

FormatDocId(n, width) ==
    IF n < 0 THEN <<ChMinus>> \o ZeroPad(StrNat(-n), width - 1) ELSE ZeroPad(StrNat(n), width)

\* the characters int() strips from both ends of its text
Whitespace ==
    {9, 10, 11, 12, 13, 32, 133, 160, 5760} \cup (8192..8202)
        \cup {8232, 8233, 8239, 8287, 12288}

\* the code points of the decimal digit zeros (Unicode category Nd); the digits
\* 1 to 9 of a script follow its zero
DecimalZeros ==
    {48, 1632, 1776, 1984, 2406, 2534, 2662, 2790, 2918, 3046,
     3174, 3302, 3430, 3558, 3664, 3792, 3872, 4160, 4240, 6112,
     6160, 6470, 6608, 6784, 6800, 6992, 7088, 7232, 7248, 42528,
     43216, 43264, 43472, 43504, 43600, 44016, 65296, 66720, 68912, 69734,
     69872, 69942, 70096, 70384, 70736, 70864, 71248, 71360, 71472, 71904,
     72016, 72784, 73040, 73120, 92768, 92864, 93008, 120782, 120792, 120802,
     120812, 120822, 123200, 123632, 125264, 130032}

IsDigit(c) == \E z \in DecimalZeros : c >= z /\ c <= z + 9
DigitOf(c) == c - (CHOOSE z \in DecimalZeros : c >= z /\ c <= z + 9)

\* digits with single underscores between them
IsDigits(s) ==
    /\ s # <<>>
    /\ \A i \in DOMAIN s :
          \/ IsDigit(s[i])
          \/ s[i] = ChUnderscore /\ i > 1 /\ i < Len(s) /\ IsDigit(s[i - 1]) /\ IsDigit(s[i + 1])

\* sys.get_int_max_str_digits(): int() refuses a text of more digits
int_max_str_digits == 4300

\* the digits of s, the underscores between them left out
DigitCount(s) == Cardinality({i \in DOMAIN s : s[i] # ChUnderscore})

\* a text of digits int() converts
IsConvertible(s) == IsDigits(s) /\ DigitCount(s) <= int_max_str_digits

RECURSIVE DigitsValue(_)
DigitsValue(s) ==
    IF s = <<>> THEN 0
    ELSE IF s[Len(s)] = ChUnderscore THEN DigitsValue(SubSeq(s, 1, Len(s) - 1))
    ELSE 10 * DigitsValue(SubSeq(s, 1, Len(s) - 1)) + DigitOf(s[Len(s)])

\* the text without the whitespace at its ends
RECURSIVE Strip(_)
Strip(s) ==
    IF s = <<>> THEN s
    ELSE IF Head(s) \in Whitespace THEN Strip(Tail(s))
    ELSE IF s[Len(s)] \in Whitespace THEN Strip(SubSeq(s, 1, Len(s) - 1))
    ELSE s

\* int(text): [ok, val]; ok = FALSE stands for ValueError
ParseInt(text) ==
    LET s == Strip(text)
    IN  IF IsConvertible(s) THEN [ok |-> TRUE, val |-> DigitsValue(s)]
        ELSE IF s # <<>> /\ Head(s) = ChPlus /\ IsConvertible(Tail(s))
             THEN [ok |-> TRUE, val |-> DigitsValue(Tail(s))]
        ELSE IF s # <<>> /\ Head(s) = ChMinus /\ IsConvertible(Tail(s))
             THEN [ok |-> TRUE, val |-> -DigitsValue(Tail(s))]
        ELSE [ok |-> FALSE, val |-> 0]

-----------------------------------------------------------------------------
(* Record file construction: build_record_file.py *)

\* the characters str.strip() takes off
StrWhitespace == Whitespace \cup (28..31)

\* str.strip()
RECURSIVE StrStrip(_)
StrStrip(s) ==
    IF s = <<>> THEN s
    ELSE IF Head(s) \in StrWhitespace THEN StrStrip(Tail(s))
    ELSE IF s[Len(s)] \in StrWhitespace THEN StrStrip(SubSeq(s, 1, Len(s) - 1))
    ELSE s

\* s[:-1]
AllButLast(s) == SubSeq(s, 1, Len(s) - 1)

\* RecordBuilder.set_doc_id_digits: the length of what follows the last <P ID=
\* on its line, stripped, less its last character; on a file without a document
\* the backward search for the last <P ID= seeks before the start of the file
set_doc_id_digits(coll, line) ==
    IF coll = <<>> THEN [raised |-> "OSError", doc_id_digits |-> 0]
    ELSE [raised |-> "", doc_id_digits |-> Len(AllButLast(StrStrip(line)))]

\* dict keys in insertion order: the distinct elements of a sequence, first seen first
RECURSIVE Distinct(_)
Distinct(s) ==
    IF s = <<>> THEN <<>>
    ELSE LET init == Distinct(SubSeq(s, 1, Len(s) - 1))
             x == s[Len(s)]
         IN  IF x \in Range(init) THEN init ELSE Append(init, x)

\* the positions (0-based) of key k in the key sequence ks, as strings
RECURSIVE PosStrs(_, _, _)
PosStrs(ks, k, idx) ==
    IF idx > Len(ks) THEN <<>>
    ELSE (IF ks[idx] = k THEN <<Str(idx - 1)>> ELSE <<>>) \o PosStrs(ks, k, idx + 1)

\* RecordBuilder.write_record: one line term,doc_id,pos... per distinct term
write_record(doc_id, terms) ==
    LET keys == Distinct(terms)
    IN  [i \in 1..Len(keys) |-> <<keys[i], doc_id>> \o PosStrs(terms, keys[i], 1)]

\* RecordBuilder.write_nextword_record: one line first,0,next,doc_id,pos... per pair
write_nextword_record(doc_id, terms) ==
    LET tuples == [i \in 1..Len(terms) |->
                      <<terms[i], IF i # Len(terms) THEN terms[i + 1] ELSE EndMark>>]
        keys == Distinct(tuples)
    IN  [i \in 1..Len(keys) |->
            <<keys[i][1], <<ChZero>>, keys[i][2], doc_id>> \o PosStrs(tuples, keys[i], 1)]

\* RecordBuilder.process_docs: the unsorted record lines of the collection
process_docs(coll, doc_id_digits, nw) ==
    Concat([i \in 1..Len(coll) |->
        LET doc_id == FormatDocId(coll[i].doc_id, doc_id_digits)
        IN  IF ~nw THEN write_record(doc_id, coll[i].terms)
            ELSE write_nextword_record(doc_id, coll[i].terms)])

\* sort(1) in the C locale: lines ordered as byte strings
LineText(line) == Join(line, <<ChComma>>)

RECURSIVE InsertLine(_, _)
InsertLine(sorted, line) ==
    IF sorted = <<>> THEN <<line>>
    ELSE IF TextLess(LineText(line), LineText(Head(sorted))) THEN <<line>> \o sorted
    ELSE <<Head(sorted)>> \o InsertLine(Tail(sorted), line)

RECURSIVE SortLines(_)
SortLines(lines) ==
    IF lines = <<>> THEN <<>>
    ELSE InsertLine(SortLines(SubSeq(lines, 1, Len(lines) - 1)), lines[Len(lines)])

\* RecordBuilder.build up to the sort: the record lines, sorted
RecordFileOf(coll, doc_id_digits, nw) == SortLines(process_docs(coll, doc_id_digits, nw))

\* build_record_file: [raised, written, metadata_line, lines]. The old record
\* file is removed first; RecordBuilder(args) raises on a collection without a
\* document, before a file is written; sed puts the metadata before the first
\* line, and does nothing to a file without a line
build_record_file(coll, line, nw) ==
    LET digits == set_doc_id_digits(coll, line)
        lines == RecordFileOf(coll, digits.doc_id_digits, nw)
    IN  IF digits.raised # ""
        THEN [raised |-> digits.raised, written |-> FALSE,
              metadata_line |-> FALSE, lines |-> <<>>]
        ELSE [raised |-> "", written |-> TRUE,
              metadata_line |-> lines # <<>>, lines |-> lines]

-----------------------------------------------------------------------------
(* Python ints and the fixed width encoding: utilities.py, build_index.py *)

\* A Python int is an arbitrary precision number: a sign and a magnitude held
\* as big-endian base-256 digits without leading zeros (0 has none).
RECURSIVE Magnitude(_)
Magnitude(n) == IF n = 0 THEN <<>> ELSE Append(Magnitude(n \div 256), n % 256)

PyInt(n) == [neg |-> n < 0, mag |-> Magnitude(IF n < 0 THEN -n ELSE n)]

RECURSIVE MagnitudeValue(_)
MagnitudeValue(m) ==
    IF m = <<>> THEN 0 ELSE 256 * MagnitudeValue(SubSeq(m, 1, Len(m) - 1)) + m[Len(m)]

IntOf(p) == IF p.neg THEN -MagnitudeValue(p.mag) ELSE MagnitudeValue(p.mag)

RECURSIVE StripZeros(_)
StripZeros(bs) == IF bs # <<>> /\ Head(bs) = 0 THEN StripZeros(Tail(bs)) ELSE bs

\* to_bytes that keeps the low bytes of a magnitude longer than length
to_bytes_Truncating(p, length) ==
    IF p.neg THEN [ok |-> FALSE, bytes |-> <<>>]
    ELSE IF Len(p.mag) > length
    THEN [ok |-> TRUE, bytes |-> SubSeq(p.mag, Len(p.mag) - length + 1, Len(p.mag))]
    ELSE [ok |-> TRUE, bytes |-> [i \in 1..(length - Len(p.mag)) |-> 0] \o p.mag]

\* int.to_bytes(length, byteorder='big', signed=False): ok = FALSE is OverflowError
to_bytes(p, length) ==
    IF p.neg \/ Len(p.mag) > length THEN [ok |-> FALSE, bytes |-> <<>>]
    ELSE [ok |-> TRUE, bytes |-> [i \in 1..(length - Len(p.mag)) |-> 0] \o p.mag]

\* int.from_bytes(bytes, byteorder='big', signed=False)
from_bytes(bs) == [neg |-> FALSE, mag |-> StripZeros(bs)]

\* write_int that leaves current_offset as it was
write_int_Uncounted(b, integer) ==
    IF b.raised # "" THEN b
    ELSE LET enc == to_bytes(integer, INT_BYTES)
         IN  IF ~enc.ok THEN [b EXCEPT !.raised = "OverflowError"]
             ELSE [b EXCEPT !.inverted_file = @ \o enc.bytes]

\* IndexBuilder.write_int on a builder b; integer is a Python int
write_int(b, integer) ==
    IF b.raised # "" THEN b
    ELSE LET enc == to_bytes(integer, INT_BYTES)
         IN  IF ~enc.ok THEN [b EXCEPT !.raised = "OverflowError"]
             ELSE [b EXCEPT !.inverted_file = @ \o enc.bytes,
                            !.current_offset = @ + 1]

RECURSIVE write_ints(_, _)
write_ints(b, ints) ==
    IF ints = <<>> THEN b ELSE write_ints(write_int(b, PyInt(Head(ints))), Tail(ints))

-----------------------------------------------------------------------------
(* Python dicts *)

EmptyDict == [k \in {} |-> 0]

Put(d, k, v) == [x \in (DOMAIN d) \cup {k} |-> IF x = k THEN v ELSE d[x]]

\* an insertion ordered dict as a sequence of <<key, value>>
Keys(od) == {od[i][1] : i \in DOMAIN od}

OPut(od, k, v) ==
    IF k \in Keys(od) THEN [i \in DOMAIN od |-> IF od[i][1] = k THEN <<k, v>> ELSE od[i]]
    ELSE Append(od, <<k, v>>)

OGet(od, k) == (CHOOSE i \in DOMAIN od : od[i][1] = k)

-----------------------------------------------------------------------------
(* Index construction: build_index.py *)

\* IndexBuilder.__init__
NewBuilder ==
    [lexicon |-> [terms |-> EmptyDict, term_ids |-> EmptyDict],
     term_ids_inv |-> EmptyDict,
     current_offset |-> 0,
     inverted_file |-> <<>>,
     prev_next_term |-> NoBuffer,
     current_first_term |-> None,
     raised |-> ""]

\* [int(pos) for pos in record[k:]]: [ok, vals]
ParseInts(fields) ==
    [ok |-> \A i \in DOMAIN fields : ParseInt(fields[i]).ok,
     vals |-> [i \in DOMAIN fields |-> ParseInt(fields[i]).val]]

\* CountRecord with collection_freq += 1 in place of += term_freq
CountRecord_OnePerRecord(entry, term_freq) ==
    [entry EXCEPT !.doc_freq = @ + 1, !.collection_freq = @ + 1]

\* "Update lexicon with record": the frequency counters of a term's entry
CountRecord(entry, term_freq) ==
    [entry EXCEPT !.doc_freq = @ + 1, !.collection_freq = @ + term_freq]

\* IndexBuilder.process_record
process_record(b, record) ==
    IF Len(record) < 2 THEN [b EXCEPT !.raised = "IndexError"]
    ELSE
    LET term == record[1]
        doc_id == ParseInt(record[2])
        term_pos_list == ParseInts(SubSeq(record, 3, Len(record)))
        term_freq == Len(term_pos_list.vals)
        terms == b.lexicon.terms
        terms1 == IF term \notin DOMAIN terms
                  THEN Put(terms, term, [doc_freq |-> 0, collection_freq |-> 0,
                                         offset |-> b.current_offset])
                  ELSE terms
        terms2 == [terms1 EXCEPT ![term] = CountRecord(@, term_freq)]
        b1 == [b EXCEPT !.lexicon.terms = terms2]
    IN  IF ~doc_id.ok \/ ~term_pos_list.ok THEN [b EXCEPT !.raised = "ValueError"]
        ELSE write_ints(b1, <<doc_id.val, term_freq>> \o term_pos_list.vals)

\* the units written for the buffered documents of a pair group
RECURSIVE DocIdsUnits(_)
DocIdsUnits(doc_ids) ==
    IF doc_ids = <<>> THEN <<>>
    ELSE <<Head(doc_ids)[1], Len(Head(doc_ids)[2])>> \o Head(doc_ids)[2]
         \o DocIdsUnits(Tail(doc_ids))

\* write_prev_next_term without the increment of num_next_terms
write_prev_next_term_Uncredited(b) ==
    IF b.raised # "" THEN b
    ELSE IF b.current_first_term \notin DOMAIN b.lexicon.terms
    THEN [b EXCEPT !.raised = "KeyError"]
    ELSE IF b.prev_next_term = NoBuffer THEN [b EXCEPT !.raised = "TypeError"]
    ELSE
    LET next_term_id == b.term_ids_inv[b.prev_next_term.term]
    IN  write_ints(b, <<next_term_id, Len(b.prev_next_term.doc_ids)>>
                      \o DocIdsUnits(b.prev_next_term.doc_ids))

\* IndexBuilder.write_prev_next_term
write_prev_next_term(b) ==
    IF b.raised # "" THEN b
    ELSE IF b.current_first_term \notin DOMAIN b.lexicon.terms
    THEN [b EXCEPT !.raised = "KeyError"]
    ELSE IF b.prev_next_term = NoBuffer THEN [b EXCEPT !.raised = "TypeError"]
    ELSE
    LET b1 == [b EXCEPT !.lexicon.terms[b.current_first_term].num_next_terms = @ + 1]
        next_term_id == b.term_ids_inv[b.prev_next_term.term]
    IN  write_ints(b1, <<next_term_id, Len(b.prev_next_term.doc_ids)>>
                       \o DocIdsUnits(b.prev_next_term.doc_ids))

\* AssignTermIds with the test "not term_ids_inv.get(term)", which takes the
\* id 0 for a missing entry
RECURSIVE AssignTermIds_ZeroIsMissing(_, _)
AssignTermIds_ZeroIsMissing(b, ts) ==
    IF ts = <<>> THEN b
    ELSE LET term == Head(ts)
             term_id == Cardinality(DOMAIN b.lexicon.term_ids)
             b1 == IF term \notin DOMAIN b.term_ids_inv \/ b.term_ids_inv[term] = 0
                   THEN [b EXCEPT !.lexicon.term_ids = Put(@, term_id, term),
                                  !.term_ids_inv = Put(@, term, term_id)]
                   ELSE b
         IN  AssignTermIds_ZeroIsMissing(b1, Tail(ts))

\* the term id loop of process_nextword_record
RECURSIVE AssignTermIds(_, _)
AssignTermIds(b, ts) ==
    IF ts = <<>> THEN b
    ELSE LET term == Head(ts)
             term_id == Cardinality(DOMAIN b.lexicon.term_ids)
             b1 == IF term \notin DOMAIN b.term_ids_inv
                   THEN [b EXCEPT !.lexicon.term_ids = Put(@, term_id, term),
                                  !.term_ids_inv = Put(@, term, term_id)]
                   ELSE b
         IN  AssignTermIds(b1, Tail(ts))

\* IndexBuilder.process_nextword_record
process_nextword_record(b, record) ==
    IF Len(record) < 4 THEN [b EXCEPT !.raised = "IndexError"]
    ELSE
    LET first_term == record[1]
        next_term == record[3]
        doc_id == ParseInt(record[4])
        term_pos_list == ParseInts(SubSeq(record, 5, Len(record)))
        term_freq == Len(term_pos_list.vals)
        \* add to term ids if needed; the loop variable term ends as next_term
        b1 == AssignTermIds(b, <<first_term, next_term>>)
        term == next_term
        isNew == first_term \notin DOMAIN b1.lexicon.terms
        \* add new term to lexicon if needed
        b2 == IF isNew /\ b1.prev_next_term # NoBuffer THEN write_prev_next_term(b1) ELSE b1
        b3 == IF ~isNew \/ b2.raised # "" THEN b2
              ELSE [b2 EXCEPT !.prev_next_term = [term |-> term, doc_ids |-> <<>>],
                              !.current_first_term = first_term,
                              !.lexicon.terms = Put(@, first_term,
                                  [doc_freq |-> 0, num_next_terms |-> 0,
                                   collection_freq |-> 0, offset |-> b2.current_offset])]
        \* update lexicon with record
        b4 == IF b3.raised # "" THEN b3
              ELSE [b3 EXCEPT !.lexicon.terms[first_term] = CountRecord(@, term_freq)]
        b5 == IF b4.raised # "" THEN b4
              ELSE IF next_term = b4.prev_next_term.term
              THEN [b4 EXCEPT !.prev_next_term.doc_ids =
                                  OPut(@, doc_id.val, term_pos_list.vals)]
              ELSE LET w == write_prev_next_term(b4)
                   IN  IF w.raised # "" THEN w
                       ELSE [w EXCEPT !.prev_next_term =
                                [term |-> next_term,
                                 doc_ids |-> <<<<doc_id.val, term_pos_list.vals>>>>]]
    IN  IF ~doc_id.ok \/ ~term_pos_list.ok THEN [b EXCEPT !.raised = "ValueError"]
        ELSE b5

\* the loop body of IndexBuilder.build for one line
BuildStep(b, nw, line) ==
    IF ~nw THEN process_record(b, line) ELSE process_nextword_record(b, line)

\* IndexBuilder.build after the last line: the final flush of the nextword variant
BuildEnd(b, nw) == IF nw THEN write_prev_next_term(b) ELSE b

\* the loop of IndexBuilder.build from line k of the record lines, then the
\* final flush
RECURSIVE BuildFrom(_, _, _, _)
BuildFrom(b, nw, lines, k) ==
    IF b.raised # "" THEN b
    ELSE IF k > Len(lines) THEN BuildEnd(b, nw)
    ELSE BuildFrom(BuildStep(b, nw, lines[k]), nw, lines, k + 1)

\* IndexBuilder.build up to the writing of the lexicon, on a record file given
\* by its metadata line (there or not) and its record lines; json.loads raises on the
\* first line of a file that does not start with the metadata
build(b, nw, has_metadata, lines) ==
    IF ~has_metadata THEN [b EXCEPT !.raised = "JSONDecodeError"]
    ELSE BuildFrom(b, nw, lines, 1)

\* build_record_file_and_index in a new directory: the index (lexicon and
\* inverted file) the given variant builds for a collection file
IndexOf(coll, line, nw) ==
    LET rf == build_record_file(coll, line, nw)
    IN  IF rf.raised # ""
        THEN [lexicon |-> NewBuilder.lexicon, inverted_file |-> <<>>, raised |-> rf.raised]
        ELSE LET b == build(NewBuilder, nw, rf.metadata_line, rf.lines)
             IN  [lexicon |-> b.lexicon, inverted_file |-> b.inverted_file,
                  raised |-> b.raised]

-----------------------------------------------------------------------------
(* Reading the inverted file: process_queries.py *)

\* file.read(n) at byte position pos: the bytes read (fewer at the end of the file)
FileRead(file, pos, n) ==
    IF pos >= Len(file) THEN <<>> ELSE SubSeq(file, pos + 1, Min(pos + n, Len(file)))

\* QueryProcessor.read_int with the value as a Python int: [val, pos]
read_pyint(file, pos) ==
    LET bs == FileRead(file, pos, INT_BYTES)
    IN  [val |-> from_bytes(bs), pos |-> pos + Len(bs)]

\* QueryProcessor.read_int: [val, pos]
read_int(file, pos) ==
    LET r == read_pyint(file, pos)
    IN  [val |-> IntOf(r.val), pos |-> r.pos]

\* QueryProcessor.skip_int: the position after it
skip_int(file, pos) == pos + Len(FileRead(file, pos, INT_BYTES))

\* n successive read_int calls: [vals, pos]
RECURSIVE read_ints(_, _, _)
read_ints(file, pos, n) ==
    IF n <= 0 THEN [vals |-> <<>>, pos |-> pos]
    ELSE LET r == read_int(file, pos)
             rest == read_ints(file, r.pos, n - 1)
         IN  [vals |-> <<r.val>> \o rest.vals, pos |-> rest.pos]

-----------------------------------------------------------------------------
(* Standard resolver: StandardQueryProcessor *)

\* the doc_freq loop of get_corpus_term_pos_list
RECURSIVE ReadTermDocs(_, _, _, _)
ReadTermDocs(file, pos, n, acc) ==
    IF n <= 0 THEN [dict |-> acc, pos |-> pos]
    ELSE LET doc_id == read_int(file, pos)
             doc_tf == read_int(file, doc_id.pos)
             ps == read_ints(file, doc_tf.pos, doc_tf.val)
         IN  ReadTermDocs(file, ps.pos, n - 1,
                          OPut(acc, doc_id.val, [i \in DOMAIN ps.vals |-> <<ps.vals[i]>>]))

\* StandardQueryProcessor.get_corpus_term_pos_list: [dict, pos]; dict maps a
\* document id to its list of position chains; pos is the cursor afterwards
get_corpus_term_pos_list(lex, file, pos, term) ==
    IF term \notin DOMAIN lex.terms THEN [dict |-> <<>>, pos |-> pos]
    ELSE LET term_dict == lex.terms[term]
         IN  ReadTermDocs(file, term_dict.offset * INT_BYTES, term_dict.doc_freq, <<>>)

\* all positions of the next term in one document, in scan order
NextPositions(next_pos_list_list) == Concat(next_pos_list_list)

\* Extensions with the test next_pos > last_pos in place of next_pos == last_pos + 1
RECURSIVE Extensions_AnyLater(_, _)
Extensions_AnyLater(last_pos, next_positions) ==
    IF next_positions = <<>> THEN <<>>
    ELSE (IF Head(next_positions) > last_pos THEN <<Head(next_positions)>> ELSE <<>>)
         \o Extensions_AnyLater(last_pos, Tail(next_positions))

\* the positions the scan appends to a chain whose last position was last_pos
RECURSIVE Extensions(_, _)
Extensions(last_pos, next_positions) ==
    IF next_positions = <<>> THEN <<>>
    ELSE (IF Head(next_positions) = last_pos + 1 THEN <<Head(next_positions)>> ELSE <<>>)
         \o Extensions(last_pos, Tail(next_positions))

\* one pass of the loop over terms[1:] in get_doc_matches
ExtendChains(pos_dict, next_term_pos_dict) ==
    [d \in DOMAIN pos_dict |->
        LET doc_id == pos_dict[d][1]
            pos_list_list == pos_dict[d][2]
        IN  IF doc_id \in Keys(next_term_pos_dict)
               /\ next_term_pos_dict[OGet(next_term_pos_dict, doc_id)][2] # <<>>
            THEN LET nexts == NextPositions(
                                next_term_pos_dict[OGet(next_term_pos_dict, doc_id)][2])
                 IN  <<doc_id, [c \in DOMAIN pos_list_list |->
                                  pos_list_list[c]
                                  \o Extensions(pos_list_list[c][Len(pos_list_list[c])], nexts)]>>
            ELSE pos_dict[d]]

\* the documents with a chain as long as the query
ChainMatches(pos_dict, n) ==
    {pos_dict[d][1] : d \in {e \in DOMAIN pos_dict :
        \E c \in DOMAIN pos_dict[e][2] : Len(pos_dict[e][2][c]) = n}}

RECURSIVE StdTermLoop(_, _, _, _, _)
\* the body of the loop once the next term's postings are read
StdTermRead(lex, file, pos_dict, rest, next) ==
    StdTermLoop(lex, file, next.pos, ExtendChains(pos_dict, next.dict), Tail(rest))

\* the loop over terms[1:] of get_doc_matches: [dict, pos]
StdTermLoop(lex, file, pos, pos_dict, rest) ==
    IF rest = <<>> THEN [dict |-> pos_dict, pos |-> pos]
    ELSE StdTermRead(lex, file, pos_dict, rest,
                     get_corpus_term_pos_list(lex, file, pos, Head(rest)))

\* the return of get_doc_matches: the documents with a full chain
StdMatches(final, n) ==
    [doc_matches |-> ChainMatches(final.dict, n), pos |-> final.pos, raised |-> ""]

\* the loop over terms[1:] of get_doc_matches, entered with the first term's chains
StdFromFirst(lex, file, first, rest) ==
    StdTermLoop(lex, file, first.pos, first.dict, rest)

\* StandardQueryProcessor.get_doc_matches: [doc_matches, pos, raised]
std_get_doc_matches(lex, file, pos, terms) ==
    IF terms = <<>> THEN [doc_matches |-> {}, pos |-> pos, raised |-> ""]
    ELSE StdMatches(StdFromFirst(lex, file,
                                 get_corpus_term_pos_list(lex, file, pos, terms[1]),
                                 Tail(terms)),
                    Len(terms))

-----------------------------------------------------------------------------
(* Nextword resolver: NextwordQueryProcessor *)

\* NextwordQueryProcessor.__init__: the per-query fields
NewQState ==
    [ordered_unique_term_pairs |-> <<>>,
     query_terms |-> <<>>,
     query_term_pairs |-> <<>>,
     covered |-> <<>>,
     query_results |-> <<>>]

\* ReadPairDocs that starts the result afresh with every document
RECURSIVE ReadPairDocs_Resetting(_, _, _, _)
ReadPairDocs_Resetting(file, pos, n, acc) ==
    IF n <= 0 THEN [dict |-> acc, pos |-> pos]
    ELSE LET doc_id == read_int(file, pos)
             pos_list_len == read_int(file, doc_id.pos)
             ps == read_ints(file, pos_list_len.pos, pos_list_len.val)
         IN  ReadPairDocs_Resetting(file, ps.pos, n - 1, <<<<doc_id.val, ps.vals>>>>)

\* the fully decoded documents of a matching group: [dict, pos]
RECURSIVE ReadPairDocs(_, _, _, _)
ReadPairDocs(file, pos, n, acc) ==
    IF n <= 0 THEN [dict |-> acc, pos |-> pos]
    ELSE LET doc_id == read_int(file, pos)
             pos_list_len == read_int(file, doc_id.pos)
             ps == read_ints(file, pos_list_len.pos, pos_list_len.val)
         IN  ReadPairDocs(file, ps.pos, n - 1, OPut(acc, doc_id.val, ps.vals))

\* SkipPairDocs that reads the two headers and does not seek over the positions
RECURSIVE SkipPairDocs_HeadersOnly(_, _, _)
SkipPairDocs_HeadersOnly(file, pos, n) ==
    IF n <= 0 THEN pos
    ELSE LET pos_list_len == read_int(file, skip_int(file, pos))
         IN  SkipPairDocs_HeadersOnly(file, pos_list_len.pos, n - 1)

\* the skipped documents of a non-matching group: the position after them
RECURSIVE SkipPairDocs(_, _, _)
SkipPairDocs(file, pos, n) ==
    IF n <= 0 THEN pos
    ELSE LET pos_list_len == read_int(file, skip_int(file, pos))
         IN  SkipPairDocs(file, pos_list_len.pos + pos_list_len.val * INT_BYTES, n - 1)

\* ScanGroups without the test "or next_term is None"
RECURSIVE ScanGroups_NoSentinel(_, _, _, _, _, _)
ScanGroups_NoSentinel(lex, file, pos, n, next_term, acc) ==
    IF n <= 0 THEN [dict |-> acc, pos |-> pos, raised |-> ""]
    ELSE LET next_term_id == read_int(file, pos)
         IN  IF next_term_id.val \notin DOMAIN lex.term_ids
             THEN [dict |-> acc, pos |-> next_term_id.pos, raised |-> "KeyError"]
             ELSE
             LET this_next_term == lex.term_ids[next_term_id.val]
                 pair_doc_freq == read_int(file, next_term_id.pos)
             IN  IF this_next_term = next_term
                 THEN LET g == ReadPairDocs(file, pair_doc_freq.pos, pair_doc_freq.val, acc)
                      IN  ScanGroups_NoSentinel(lex, file, g.pos, n - 1, next_term, g.dict)
                 ELSE ScanGroups_NoSentinel(lex, file,
                                 SkipPairDocs(file, pair_doc_freq.pos, pair_doc_freq.val),
                                 n - 1, next_term, acc)

\* the num_next_terms loop of find_postings
RECURSIVE ScanGroups(_, _, _, _, _, _)
ScanGroups(lex, file, pos, n, next_term, acc) ==
    IF n <= 0 THEN [dict |-> acc, pos |-> pos, raised |-> ""]
    ELSE LET next_term_id == read_int(file, pos)
         IN  IF next_term_id.val \notin DOMAIN lex.term_ids
             THEN [dict |-> acc, pos |-> next_term_id.pos, raised |-> "KeyError"]
             ELSE
             LET this_next_term == lex.term_ids[next_term_id.val]
                 pair_doc_freq == read_int(file, next_term_id.pos)
             IN  IF this_next_term = next_term \/ next_term = None
                 THEN LET g == ReadPairDocs(file, pair_doc_freq.pos, pair_doc_freq.val, acc)
                      IN  ScanGroups(lex, file, g.pos, n - 1, next_term, g.dict)
                 ELSE ScanGroups(lex, file,
                                 SkipPairDocs(file, pair_doc_freq.pos, pair_doc_freq.val),
                                 n - 1, next_term, acc)

\* find_postings without the guard for a first term absent from the lexicon
find_postings_NoAbsentGuard(lex, file, pos, term_pair) ==
    LET first_term == term_pair[1]
        next_term == term_pair[2]
    IN  IF first_term \notin DOMAIN lex.terms
        THEN [dict |-> <<>>, pos |-> pos, raised |-> "KeyError"]
        ELSE LET first_term_dict == lex.terms[first_term]
             IN  ScanGroups(lex, file, first_term_dict.offset * INT_BYTES,
                            first_term_dict.num_next_terms, next_term, <<>>)

\* find_postings that reads on from the cursor (no seek to the term's offset)
find_postings_NoSeek(lex, file, pos, term_pair) ==
    LET first_term == term_pair[1]
        next_term == term_pair[2]
    IN  IF first_term \notin DOMAIN lex.terms
        THEN [dict |-> <<>>, pos |-> pos, raised |-> ""]
        ELSE LET first_term_dict == lex.terms[first_term]
             IN  ScanGroups(lex, file, pos,
                            first_term_dict.num_next_terms, next_term, <<>>)

\* NextwordQueryProcessor.find_postings: [dict, pos, raised]
find_postings(lex, file, pos, term_pair) ==
    LET first_term == term_pair[1]
        next_term == term_pair[2]
    IN  IF first_term \notin DOMAIN lex.terms
        THEN [dict |-> <<>>, pos |-> pos, raised |-> ""]
        ELSE LET first_term_dict == lex.terms[first_term]
             IN  ScanGroups(lex, file, first_term_dict.offset * INT_BYTES,
                            first_term_dict.num_next_terms, next_term, <<>>)

\* sort_dict_by_value(dictionary, reverse): a stable sort of the items by value,
\* descending when reverse (equal values keep their order either way)
RECURSIVE InsertByValue(_, _, _)
InsertByValue(sorted, item, reverse) ==
    IF sorted = <<>> THEN <<item>>
    ELSE IF (IF reverse THEN item[2] > Head(sorted)[2] ELSE item[2] < Head(sorted)[2])
         THEN <<item>> \o sorted
    ELSE <<Head(sorted)>> \o InsertByValue(Tail(sorted), item, reverse)

RECURSIVE sort_dict_by_value(_, _)
sort_dict_by_value(dictionary, reverse) ==
    IF dictionary = <<>> THEN <<>>
    ELSE InsertByValue(sort_dict_by_value(SubSeq(dictionary, 1, Len(dictionary) - 1), reverse),
                       dictionary[Len(dictionary)], reverse)

\* the loop of setup_term_pairs from index idx (1-based): [ok, q]
RECURSIVE PairSetupLoop(_, _, _, _)
PairSetupLoop(lex, terms, idx, q) ==
    IF idx > Len(terms) - 1 THEN [ok |-> TRUE, q |-> q]
    ELSE LET first_term == terms[idx]
             next_term == terms[idx + 1]
             term_pair == <<first_term, next_term>>
         IN  IF first_term \notin DOMAIN lex.terms \/ next_term \notin DOMAIN lex.terms
             THEN [ok |-> FALSE, q |-> q]
             ELSE PairSetupLoop(lex, terms, idx + 1,
                    [q EXCEPT !.ordered_unique_term_pairs =
                                  OPut(@, term_pair, lex.terms[first_term].collection_freq),
                              !.query_term_pairs = Append(@, term_pair)])

\* NextwordQueryProcessor.setup_term_pairs: [ok, q]
setup_term_pairs(lex, q, terms) ==
    LET q1 == [q EXCEPT !.query_terms = terms,
                        !.ordered_unique_term_pairs = <<>>,
                        !.query_term_pairs = <<>>]
        looped == PairSetupLoop(lex, terms, 1, q1)
    IN  IF ~looped.ok THEN looped
        ELSE [ok |-> TRUE,
              q |-> [looped.q EXCEPT
                        !.covered = [i \in 1..Len(terms) |-> FALSE],
                        !.ordered_unique_term_pairs = sort_dict_by_value(@, TRUE)]]

\* the covered flags after term_pair was fetched
MarkCovered(covered, query_term_pairs, term_pair) ==
    [i \in DOMAIN covered |->
        IF \E idx \in DOMAIN query_term_pairs :
              query_term_pairs[idx] = term_pair /\ (i = idx \/ i = idx + 1)
        THEN TRUE ELSE covered[i]]

\* StopsEarly with "True in self.covered" in place of "False not in self.covered"
StopsEarly_AnyCovered(covered) == TRUE \in Range(covered)

\* the pair loop stops once no position is uncovered
StopsEarly(covered) == FALSE \notin Range(covered)

\* SingleTermResults with pos in place of pos + idx
SingleTermResults_NoShift(query_results) ==
    LET entries == UNION {UNION {{<<query_results[p][1][idx], query_results[p][2][d][1],
                                    query_results[p][2][d][2]>> : idx \in {1, 2}} :
                                 d \in DOMAIN query_results[p][2]} :
                          p \in DOMAIN query_results}
    IN  [t \in {e[1] : e \in entries} |->
            [doc \in {e[2] : e \in {x \in entries : x[1] = t}} |->
                UNION {{e[3][i] : i \in DOMAIN e[3]} :
                       e \in {x \in entries : x[1] = t /\ x[2] = doc}}]]

\* position sets per term and document: the first loop of merge_query_results
SingleTermResults(query_results) ==
    LET entries == UNION {UNION {{<<query_results[p][1][idx], query_results[p][2][d][1],
                                    query_results[p][2][d][2], idx - 1>> : idx \in {1, 2}} :
                                 d \in DOMAIN query_results[p][2]} :
                          p \in DOMAIN query_results}
    IN  [t \in {e[1] : e \in entries} |->
            [doc \in {e[2] : e \in {x \in entries : x[1] = t}} |->
                UNION {{e[3][i] + e[4] : i \in DOMAIN e[3]} :
                       e \in {x \in entries : x[1] = t /\ x[2] = doc}}]]

\* the loop over query_terms[1:] of merge_query_results: [results, raised];
\* results maps a document to its chains. The code holds the chains of a
\* document in a list whose order is the iteration order of a Python set of
\* positions; it extends each chain in place and reads nothing but the chains'
\* lengths, so the chains are held here as a set (two chains of a document never
\* start at the same position).
RECURSIVE MergeTermLoop(_, _, _)
MergeTermLoop(single_term_results, res, rest) ==
    IF rest = <<>> THEN [results |-> res, raised |-> ""]
    ELSE IF Head(rest) \notin DOMAIN single_term_results
    THEN [results |-> res, raised |-> "KeyError"]
    ELSE LET new_results == single_term_results[Head(rest)]
             res1 == [doc_id \in DOMAIN res |->
                        IF doc_id \in DOMAIN new_results
                        THEN {LET next_term == pos_list[Len(pos_list)] + 1
                              IN  IF next_term \in new_results[doc_id]
                                  THEN Append(pos_list, next_term) ELSE pos_list :
                              pos_list \in res[doc_id]}
                        ELSE res[doc_id]]
         IN  MergeTermLoop(single_term_results, res1, Tail(rest))

\* NextwordQueryProcessor.merge_query_results: [doc_matches, raised]
merge_query_results(q) ==
    LET single_term_results == SingleTermResults(q.query_results)
    IN  IF q.query_terms[1] \notin DOMAIN single_term_results
        THEN [doc_matches |-> {}, raised |-> "KeyError"]
        ELSE
        LET first_term_results == single_term_results[q.query_terms[1]]
            res0 == [doc_id \in DOMAIN first_term_results |->
                        {<<pos>> : pos \in first_term_results[doc_id]}]
            merged == MergeTermLoop(single_term_results, res0, Tail(q.query_terms))
        IN  IF merged.raised # "" THEN [doc_matches |-> {}, raised |-> merged.raised]
            ELSE [doc_matches |->
                     {doc_id \in DOMAIN merged.results :
                         \E pos_list \in merged.results[doc_id] :
                             Len(pos_list) = Len(q.query_terms)},
                  raised |-> ""]

\* the loop over ordered_unique_term_pairs of get_doc_matches, from pair k:
\* [done, doc_matches, pos, raised, q, fetched]; done means the loop returned
RECURSIVE PairLoop(_, _, _, _, _, _)
\* the body of the loop for pair k once find_postings has returned found
PairFetched(lex, file, q, k, term_pair, fetched1, found) ==
    IF found.raised # ""
    THEN [done |-> TRUE, pos |-> found.pos, raised |-> found.raised, q |-> q,
          fetched |-> fetched1]
    ELSE IF found.dict = <<>>
    THEN [done |-> TRUE, pos |-> found.pos, raised |-> "", q |-> q,
          fetched |-> fetched1]
    ELSE LET q1 == [q EXCEPT
                      !.query_results = OPut(@, term_pair, found.dict),
                      !.covered = MarkCovered(@, q.query_term_pairs, term_pair)]
         IN  IF StopsEarly(q1.covered)
             THEN [done |-> FALSE, pos |-> found.pos, raised |-> "", q |-> q1,
                   fetched |-> fetched1]
             ELSE PairLoop(lex, file, found.pos, q1, k + 1, fetched1)

PairLoop(lex, file, pos, q, k, fetched_pairs) ==
    IF k > Len(q.ordered_unique_term_pairs)
    THEN [done |-> FALSE, pos |-> pos, raised |-> "", q |-> q, fetched |-> fetched_pairs]
    ELSE PairFetched(lex, file, q, k, q.ordered_unique_term_pairs[k][1],
                     Append(fetched_pairs, q.ordered_unique_term_pairs[k][1]),
                     find_postings(lex, file, pos, q.ordered_unique_term_pairs[k][1]))

\* the end of get_doc_matches after the loop over the pairs
PairsFetched(loop) ==
    IF loop.done \/ loop.raised # ""
    THEN [doc_matches |-> {}, pos |-> loop.pos, raised |-> loop.raised,
          q |-> loop.q, fetched |-> loop.fetched]
    ELSE LET merged == merge_query_results(loop.q)
         IN  [doc_matches |-> merged.doc_matches, pos |-> loop.pos,
              raised |-> merged.raised, q |-> loop.q, fetched |-> loop.fetched]

\* the single term branch of get_doc_matches, find_postings having returned postings
SingleTermFetched(q, term, postings) ==
    [doc_matches |-> Keys(postings.dict), pos |-> postings.pos,
     raised |-> postings.raised, q |-> q, fetched |-> <<<<term, None>>>>]

\* NextwordQueryProcessor.get_doc_matches: [doc_matches, pos, raised, q, fetched]
nw_get_doc_matches(lex, file, pos, q, terms) ==
    IF terms = <<>>
    THEN [doc_matches |-> {}, pos |-> pos, raised |-> "", q |-> q, fetched |-> <<>>]
    ELSE IF Len(terms) = 1
    THEN SingleTermFetched(q, terms[1], find_postings(lex, file, pos, <<terms[1], None>>))
    ELSE LET setup == setup_term_pairs(lex, q, terms)
         IN  IF ~setup.ok
             THEN [doc_matches |-> {}, pos |-> pos, raised |-> "", q |-> setup.q,
                   fetched |-> <<>>]
             ELSE
             PairsFetched(PairLoop(lex, file, pos,
                                   [setup.q EXCEPT !.query_results = <<>>], 1, <<>>))

\* the outcome of the standard variant, which has no per-query fields
StdOutcome(q, r) ==
    [doc_matches |-> r.doc_matches, pos |-> r.pos, raised |-> r.raised,
     q |-> q, fetched |-> <<>>]

\* QueryProcessor.get_doc_matches of the variant in use
get_doc_matches(nw, lex, file, pos, q, terms) ==
    IF nw THEN nw_get_doc_matches(lex, file, pos, q, terms)
    ELSE StdOutcome(q, std_get_doc_matches(lex, file, pos, terms))

\* list.sort() of a list of distinct integers: ascending
RECURSIVE Sorted(_)
Sorted(S) ==
    IF S = {} THEN <<>>
    ELSE LET m == CHOOSE x \in S : \A y \in S : x <= y
         IN  <<m>> \o Sorted(S \ {m})

\* SortDocIds that orders the ids as text
RECURSIVE SortDocIds_AsText(_)
SortDocIds_AsText(doc_matches) ==
    IF doc_matches = {} THEN <<>>
    ELSE LET m == CHOOSE x \in doc_matches :
                     \A y \in doc_matches : x = y \/ TextLess(Str(x), Str(y))
         IN  <<m>> \o SortDocIds_AsText(doc_matches \ {m})

\* doc_ids = list(doc_ids); doc_ids.sort(): ascending by number
SortDocIds(doc_matches) == Sorted(doc_matches)

\* the line process_queries writes for one result
ResultLine(query_id, doc_matches) ==
    LET doc_ids == SortDocIds(doc_matches)
    IN  <<ChQ>> \o Str(query_id) \o <<ChComma>>
        \o Join([i \in DOMAIN doc_ids |-> <<ChP>> \o Str(doc_ids[i])], <<ChComma>>)

-----------------------------------------------------------------------------
(* Inputs *)

RECURSIVE TotalLen(_)
TotalLen(ss) == IF ss = <<>> THEN 0 ELSE Len(Head(ss)) + TotalLen(Tail(ss))

\* the collections of NumDocs documents (ids DocIdList) of n terms in total
CollectionsUpTo(n) ==
    {[i \in 1..NumDocs |-> [doc_id |-> DocIdList[i], terms |-> ts[i]]] :
        ts \in {x \in [1..NumDocs -> SeqsUpTo(Terms, n)] : TotalLen(x) <= n}}

\* the collection files: no document at all, or NumDocs documents of MaxTokens
\* terms in total
Collections == {<<>>} \cup CollectionsUpTo(MaxTokens)

\* the collections of the runs with the rebuild option, and of the runs that
\* left the output directory a later run starts in
EarlierCollections == CollectionsUpTo(MaxEarlierTokens)

\* the collection e with every token taken out of its documents
WithoutTokens(e) == [i \in DOMAIN e |-> [e[i] EXCEPT !.terms = <<>>]]

\* the collections of a run that starts in the output directory a run over e
\* has left: e again, or e without its tokens
LaterCollections(e) == {e, WithoutTokens(e)}

\* the collection file after its last "<P ID=", to the end of the line, when
\* the tag stands alone on its line: the last document id and ">"
TagLine(coll) ==
    IF coll = <<>> THEN <<>>
    ELSE Str(coll[Len(coll)].doc_id) \o <<ChGreater, ChNewline>>

\* the same when the ids are written with a zero before them
PaddedTagLine(coll) == <<ChZero>> \o TagLine(coll)

\* the same when a document is written on one line, "<P ID=n> text </P>"
DocumentLine(coll) ==
    Str(coll[Len(coll)].doc_id) \o <<ChGreater, ChSpace>>
        \o Join(coll[Len(coll)].terms, <<ChSpace>>)
        \o <<ChSpace, ChLess, ChSlash, ChP, ChGreater, ChNewline>>

\* the layouts of the file of a collection
IdLines(coll) ==
    IF coll = <<>> THEN {<<>>}
    ELSE {TagLine(coll), PaddedTagLine(coll), DocumentLine(coll)}

\* the queries of a query file of two queries: no term or one term
BatchQueries == SeqsUpTo(Terms, 1)

\* the query files: no query, one query of up to MaxQueryLen terms, or two
\* queries out of BatchQueries
QueryFiles ==
    {<<>>}
    \cup {<<<<QueryIdList[1], t>>>> : t \in SeqsUpTo(Terms, MaxQueryLen)}
    \cup {<<<<QueryIdList[1], t1>>, <<QueryIdList[2], t2>>>> :
             t1 \in BatchQueries, t2 \in BatchQueries}

-----------------------------------------------------------------------------
(* The run: run_single_processor *)

NotWritten == [written |-> FALSE]

\* the IndexBuilder object held in the variables
Builder ==
    [lexicon |-> lexicon,
     term_ids_inv |-> term_ids_inv,
     current_offset |-> current_offset,
     inverted_file |-> inverted_file,
     prev_next_term |-> prev_next_term,
     current_first_term |-> current_first_term,
     raised |-> ""]

SetBuilder(b) ==
    /\ lexicon' = b.lexicon
    /\ term_ids_inv' = b.term_ids_inv
    /\ current_offset' = b.current_offset
    /\ inverted_file' = b.inverted_file
    /\ prev_next_term' = b.prev_next_term
    /\ current_first_term' = b.current_first_term

\* nothing of the index is on disk
NoFiles == [record_file |-> FALSE, inverted_file |-> FALSE]

\* the index files of the output directory disk as build_record_file_and_index
\* over the collection e leaves them. A collection without a document: the
\* record file is removed and nothing else is touched. Otherwise the record
\* file and the inverted file are written again, and the lexicon file if the
\* build comes to its end: a build that raises leaves the lexicon file that
\* was there
LeftBy(disk, e, line, nw) ==
    LET rf == build_record_file(e, line, nw)
        b == build(NewBuilder, nw, rf.metadata_line, rf.lines)
    IN  IF rf.raised # ""
        THEN [disk EXCEPT !.exists.record_file = FALSE, !.metadata_line = FALSE,
                          !.record_file = <<>>]
        ELSE [exists |-> [record_file |-> TRUE, inverted_file |-> TRUE],
              metadata_line |-> rf.metadata_line,
              record_file |-> rf.lines,
              inverted_file |-> b.inverted_file,
              lexicon_file |-> IF b.raised # "" THEN disk.lexicon_file
                               ELSE [written |-> TRUE, lexicon |-> b.lexicon],
              indexed |-> IF b.raised # "" THEN <<>> ELSE e]

\* the output directory before the first run
FreshDirectory ==
    [exists |-> NoFiles, metadata_line |-> FALSE, record_file |-> <<>>,
     inverted_file |-> <<>>, lexicon_file |-> NotWritten, indexed |-> <<>>]

\* the state the run starts in over the output directory disk
StartsOn(disk) ==
    /\ exists = disk.exists
    /\ metadata_line = disk.metadata_line
    /\ record_file = disk.record_file
    /\ inverted_file = disk.inverted_file
    /\ lexicon_file = disk.lexicon_file
    /\ indexed = disk.indexed
    /\ pc = "records"
    /\ error = ""
    /\ line_no = 1
    /\ lexicon = NewBuilder.lexicon
    /\ term_ids_inv = NewBuilder.term_ids_inv
    /\ current_offset = NewBuilder.current_offset
    /\ prev_next_term = NewBuilder.prev_next_term
    /\ current_first_term = NewBuilder.current_first_term
    /\ queries = <<>>
    /\ results = <<>>
    /\ file_pos = 0
    /\ qstate = NewQState
    /\ fetched = <<>>
    /\ results_file = NotWritten
    /\ int_args = <<>>

\* the output directories a run over e has left: the run started in a new
\* directory, or it was a rebuild in the directory the run before it had left
DirectoriesLeftBy(e, nw) ==
    {LeftBy(before, e, TagLine(e), nw) :
        before \in {FreshDirectory}
                    \cup {LeftBy(FreshDirectory, f, TagLine(f), nw) : f \in EarlierCollections}}

\* a run in a new directory over a collection of up to MaxTokens terms; a run
\* with the rebuild option over a collection file of any layout; a run in a
\* directory that earlier runs have left
Init ==
    /\ nextword \in BOOLEAN
    /\ \/ /\ collection \in Collections
          /\ id_line = TagLine(collection)
          /\ rebuild_index = FALSE
          /\ StartsOn(FreshDirectory)
       \/ /\ collection \in EarlierCollections
          /\ id_line \in IdLines(collection)
          /\ rebuild_index = TRUE
          /\ StartsOn(FreshDirectory)
       \/ /\ rebuild_index \in BOOLEAN
          /\ \E e \in EarlierCollections :
                /\ collection \in LaterCollections(e)
                /\ id_line = TagLine(collection)
                /\ \E disk \in DirectoriesLeftBy(e, nextword) : StartsOn(disk)

\* run_single_processor with the index files on disk and no rebuild asked for:
\* nothing is built
UseIndexOnDisk ==
    /\ pc = "records"
    /\ ~rebuild_index
    /\ exists.record_file /\ exists.inverted_file /\ lexicon_file.written
    /\ pc' = "built"
    /\ UNCHANGED <<int_args, id_line, rebuild_index, exists, metadata_line, indexed, nextword,
                   collection, error, record_file, line_no, lexicon, term_ids_inv,
                   current_offset, inverted_file, prev_next_term, current_first_term,
                   lexicon_file, queries, results, file_pos, qstate, fetched,
                   results_file>>

\* run_single_processor when a file of the index is missing or the rebuild is
\* asked for: build_record_file
BuildRecordFile ==
    /\ pc = "records"
    /\ rebuild_index \/ ~exists.record_file \/ ~exists.inverted_file \/ ~lexicon_file.written
    /\ rebuild_index' = TRUE
    /\ \E rf \in {build_record_file(collection, id_line, nextword)} :
          /\ record_file' = rf.lines
          /\ metadata_line' = rf.metadata_line
          /\ exists' = [exists EXCEPT !.record_file = rf.written]
          /\ error' = rf.raised
          /\ pc' = IF rf.raised # "" THEN "error" ELSE "metadata"
    /\ UNCHANGED <<int_args, id_line, indexed, nextword, collection, line_no, lexicon, term_ids_inv,
                   current_offset, inverted_file, prev_next_term, current_first_term,
                   lexicon_file, queries, results, file_pos, qstate, fetched,
                   results_file>>

\* build_index: IndexBuilder(args), which opens the inverted file for writing,
\* and the first line of build(), the metadata
ReadMetadata ==
    /\ pc = "metadata"
    /\ SetBuilder(NewBuilder)
    /\ exists' = [exists EXCEPT !.inverted_file = TRUE]
    /\ line_no' = 1
    /\ indexed' = <<>>
    /\ error' = IF metadata_line THEN "" ELSE "JSONDecodeError"
    /\ pc' = IF metadata_line THEN "index" ELSE "error"
    /\ UNCHANGED <<int_args, id_line, rebuild_index, metadata_line, nextword, collection,
                   record_file, lexicon_file, queries, results, file_pos, qstate, fetched,
                   results_file>>

\* IndexBuilder.build: one line of the record file
BuildLine(b) ==
    /\ SetBuilder(b)
    /\ line_no' = line_no + 1
    /\ error' = b.raised
    /\ pc' = IF b.raised # "" THEN "error" ELSE pc
    /\ UNCHANGED <<int_args, id_line, rebuild_index, exists, metadata_line, indexed, nextword, collection, record_file, lexicon_file, queries, results,
                   file_pos, qstate, fetched, results_file>>

ProcessRecord ==
    /\ pc = "index"
    /\ ~nextword
    /\ line_no <= Len(record_file)
    /\ BuildLine(process_record(Builder, record_file[line_no]))

ProcessNextwordRecord ==
    /\ pc = "index"
    /\ nextword
    /\ line_no <= Len(record_file)
    /\ BuildLine(process_nextword_record(Builder, record_file[line_no]))

\* IndexBuilder.build after the last line: the final flush, then the lexicon file
FinishBuild ==
    /\ pc = "index"
    /\ line_no > Len(record_file)
    /\ LET b == BuildEnd(Builder, nextword)
       IN  /\ SetBuilder(b)
           /\ error' = b.raised
           /\ pc' = IF b.raised # "" THEN "error" ELSE "built"
           /\ lexicon_file' = IF b.raised # "" THEN lexicon_file
                              ELSE [written |-> TRUE, lexicon |-> b.lexicon]
           /\ indexed' = IF b.raised # "" THEN indexed ELSE collection
    /\ UNCHANGED <<int_args, id_line, rebuild_index, exists, metadata_line, nextword, collection,
                   record_file, line_no, queries, results,
                   file_pos, qstate, fetched, results_file>>

\* process_queries: read the query file and construct the query processor
ReadQueries(qs) ==
    /\ pc = "built"
    /\ queries' = qs
    /\ results' = <<>>
    /\ file_pos' = 0
    /\ qstate' = NewQState
    /\ pc' = "query"
    /\ UNCHANGED <<int_args, id_line, rebuild_index, exists, metadata_line, indexed, nextword, collection, error, record_file, line_no, lexicon,
                   term_ids_inv, current_offset, inverted_file, prev_next_term,
                   current_first_term, lexicon_file, fetched, results_file>>

\* ProcessQuery with a lexicon lookup that enters a missing term (setdefault in
\* place of get)
ProcessQuery_EnteringTerms ==
    /\ pc = "query"
    /\ Len(results) < Len(queries)
    /\ \E r \in {get_doc_matches(nextword, lexicon_file.lexicon, inverted_file, file_pos,
                                 qstate, queries[Len(results) + 1][2])} :
           /\ file_pos' = r.pos
           /\ qstate' = r.q
           /\ fetched' = r.fetched
           /\ error' = r.raised
           /\ pc' = IF r.raised # "" THEN "error" ELSE pc
           /\ results' = IF r.raised # "" THEN results
                         ELSE Append(results, <<queries[Len(results) + 1][1],
                                                r.doc_matches>>)
    /\ lexicon_file' =
           [lexicon_file EXCEPT !.lexicon.terms =
               [t \in DOMAIN @ \cup Range(queries[Len(results) + 1][2]) |->
                   IF t \in DOMAIN @ THEN @[t] ELSE EmptyDict]]
    /\ UNCHANGED <<int_args, id_line, rebuild_index, exists, metadata_line, indexed, nextword, collection, record_file, line_no, lexicon, term_ids_inv,
                   current_offset, inverted_file, prev_next_term, current_first_term,
                   queries, results_file>>

\* QueryProcessor.process_query for the next query of the list
ProcessQuery ==
    /\ pc = "query"
    /\ Len(results) < Len(queries)
    /\ \E r \in {get_doc_matches(nextword, lexicon_file.lexicon, inverted_file, file_pos,
                                 qstate, queries[Len(results) + 1][2])} :
           /\ file_pos' = r.pos
           /\ qstate' = r.q
           /\ fetched' = r.fetched
           /\ error' = r.raised
           /\ pc' = IF r.raised # "" THEN "error" ELSE pc
           /\ results' = IF r.raised # "" THEN results
                         ELSE Append(results, <<queries[Len(results) + 1][1],
                                                r.doc_matches>>)
    /\ UNCHANGED <<int_args, id_line, rebuild_index, exists, metadata_line, indexed, nextword, collection, record_file, line_no, lexicon, term_ids_inv,
                   current_offset, inverted_file, prev_next_term, current_first_term,
                   lexicon_file, queries, results_file>>

\* QueryProcessor.process_queries after the last query: the results file; then
\* the means per query of process_queries, a division by the number of queries
WriteResults ==
    /\ pc = "query"
    /\ Len(results) = Len(queries)
    /\ results_file' = [written |-> TRUE,
                        lines |-> [i \in DOMAIN results |->
                                      ResultLine(results[i][1], results[i][2])]]
    /\ error' = IF Len(queries) = 0 THEN "ZeroDivisionError" ELSE ""
    /\ pc' = IF Len(queries) = 0 THEN "error" ELSE "done"
    /\ UNCHANGED <<int_args, id_line, rebuild_index, exists, metadata_line, indexed, nextword,
                   collection, record_file, line_no, lexicon, term_ids_inv,
                   current_offset, inverted_file, prev_next_term, current_first_term,
                   lexicon_file, queries, results, file_pos, qstate, fetched>>

Next ==
    \/ UseIndexOnDisk
    \/ BuildRecordFile
    \/ ReadMetadata
    \/ ProcessRecord
    \/ ProcessNextwordRecord
    \/ FinishBuild
    \/ \E qs \in QueryFiles : ReadQueries(qs)
    \/ ProcessQuery
    \/ WriteResults

Spec == Init /\ [][Next]_vars

-----------------------------------------------------------------------------
(* The integer encoding on its own: write_int calls on a fresh inverted file, *)
(* then read_int calls on the file from its start                            *)

MaxMagLen == 5
MaxWrites == 2

ByteValues == {0, 255}

\* the least integer that does not fit INT_BYTES bytes: 2^32
TooBig == [neg |-> FALSE, mag |-> <<1>> \o [i \in 1..INT_BYTES |-> 0]]

\* the integers handed to write_int: those of up to MaxMagLen base-256 digits
\* out of ByteValues, of either sign, and 1, -1 and 2^32
PyInts ==
    ({[neg |-> n, mag |-> m] :
        n \in BOOLEAN,
        m \in {x \in SeqsUpTo(ByteValues, MaxMagLen) : x = <<>> \/ Head(x) # 0}}
     \ {[neg |-> TRUE, mag |-> <<>>]})
    \cup {[neg |-> n, mag |-> <<1>>] : n \in BOOLEAN}
    \cup {TooBig}

IntInit ==
    /\ nextword = FALSE
    /\ collection = [i \in 1..NumDocs |-> [doc_id |-> DocIdList[i], terms |-> <<>>]]
    /\ id_line = TagLine(collection)
    /\ rebuild_index = FALSE
    /\ StartsOn([FreshDirectory EXCEPT !.exists.inverted_file = TRUE])

\* IndexBuilder.write_int(integer)
WriteIntCall(integer) ==
    /\ pc = "records"
    /\ Len(int_args) < MaxWrites
    /\ LET b == write_int(Builder, integer)
       IN  /\ SetBuilder(b)
           /\ error' = b.raised
           /\ pc' = IF b.raised # "" THEN "error" ELSE pc
    /\ int_args' = Append(int_args, integer)
    /\ UNCHANGED <<id_line, rebuild_index, exists, metadata_line, indexed, nextword, collection,
                   record_file, line_no, lexicon_file, queries, results, file_pos, qstate,
                   fetched, results_file>>

\* the inverted file is closed and reopened for reading
ReopenForRead ==
    /\ pc = "records"
    /\ int_args # <<>>
    /\ pc' = "read"
    /\ file_pos' = 0
    /\ UNCHANGED <<int_args, id_line, rebuild_index, exists, metadata_line, indexed, nextword, collection, error, record_file, line_no, lexicon,
                   term_ids_inv, current_offset, inverted_file, prev_next_term,
                   current_first_term, lexicon_file, queries, results, qstate, fetched,
                   results_file>>

\* QueryProcessor.read_int
ReadIntCall ==
    /\ pc = "read"
    /\ file_pos < Len(inverted_file)
    /\ LET r == read_pyint(inverted_file, file_pos)
       IN  /\ results' = Append(results, r.val)
           /\ file_pos' = r.pos
    /\ UNCHANGED <<int_args, id_line, rebuild_index, exists, metadata_line, indexed, nextword, collection, pc, error, record_file, line_no,
                   lexicon, term_ids_inv, current_offset, inverted_file, prev_next_term,
                   current_first_term, lexicon_file, queries, qstate, fetched,
                   results_file>>

IntNext ==
    \/ \E integer \in PyInts : WriteIntCall(integer)
    \/ ReopenForRead
    \/ ReadIntCall

IntSpec == IntInit /\ [][IntNext]_vars

-----------------------------------------------------------------------------
(* What the indexed collection says, by direct scan of its documents *)

\* the phrase terms stands at 1-based position p of the token list ts
OccursAt(ts, terms, p) ==
    /\ p + Len(terms) - 1 <= Len(ts)
    /\ \A i \in 1..Len(terms) : ts[p + i - 1] = terms[i]

\* the ids of the documents that hold the phrase
PhraseDocs(terms) ==
    {indexed[d].doc_id : d \in {e \in DOMAIN indexed :
        \E p \in 1..Len(indexed[e].terms) : OccursAt(indexed[e].terms, terms, p)}}

\* the ids of the documents that hold the term
DocsContaining(t) ==
    {indexed[d].doc_id : d \in {e \in DOMAIN indexed : t \in Range(indexed[e].terms)}}

\* the number of occurrences of the term in the collection
RECURSIVE CountIn(_, _)
CountIn(ts, t) ==
    IF ts = <<>> THEN 0 ELSE (IF Head(ts) = t THEN 1 ELSE 0) + CountIn(Tail(ts), t)

Occurrences(t) == CountIn(Concat([d \in DOMAIN indexed |-> indexed[d].terms]), t)

Reverse(s) == [i \in DOMAIN s |-> s[Len(s) + 1 - i]]

\* the queries answered so far, as indices into results
Answered == DOMAIN results

QueryTerms(i) == queries[i][2]
Matches(i) == results[i][2]

-----------------------------------------------------------------------------
(* Claims *)

\* C1: over the index the standard builder makes of the collection, the standard
\* resolver answers every non-empty query with exactly the documents in which
\* the query terms stand at consecutive positions, in query order.
C1_StandardPhraseMatch ==
    ~nextword =>
        \A i \in Answered :
            QueryTerms(i) # <<>> => Matches(i) = PhraseDocs(QueryTerms(i))

\* a document of four tokens matched by a two term query whose reversal matches nothing
C1_Witness ==
    /\ ~nextword
    /\ pc = "done"
    /\ \E i \in Answered :
          /\ Len(QueryTerms(i)) = 2
          /\ QueryTerms(i)[1] # QueryTerms(i)[2]
          /\ Matches(i) # {}
          /\ PhraseDocs(Reverse(QueryTerms(i))) = {}
          /\ \E d \in DOMAIN indexed :
                indexed[d].doc_id \in Matches(i) /\ Len(indexed[d].terms) = 4

\* C2: the nextword resolver over the biword index returns, for every query, the
\* documents the standard resolver returns over the standard index of the same
\* collection.
C2_NextwordAgreesWithStandard ==
    nextword =>
        \A i \in Answered :
            Matches(i) =
                LET std == IndexOf(indexed, TagLine(indexed), FALSE)
                IN  std_get_doc_matches(std.lexicon, std.inverted_file, 0,
                                        QueryTerms(i)).doc_matches

\* a three term nextword query that matches one document and not the other
C2_Witness ==
    /\ nextword
    /\ \E i \in Answered :
          /\ Len(QueryTerms(i)) = 3
          /\ Cardinality(Matches(i)) = 1
          /\ \A d \in DOMAIN indexed : indexed[d].terms # <<>>

\* C3: a one term query for a term of the collection returns exactly the
\* documents that contain the term, under both variants.
C3_SingleTermRoundTrip ==
    \A i \in Answered :
        (Len(QueryTerms(i)) = 1 /\ Occurrences(QueryTerms(i)[1]) > 0)
            => Matches(i) = DocsContaining(QueryTerms(i)[1])

\* a nextword one term query: one document holds the term only as its last token,
\* the other holds it before two different next terms
C3_Witness ==
    /\ nextword
    /\ \E i \in Answered :
          /\ Len(QueryTerms(i)) = 1
          /\ Cardinality(Matches(i)) = 2
          /\ LET t == QueryTerms(i)[1]
             IN  \E d, e \in DOMAIN indexed :
                    /\ CountIn(indexed[d].terms, t) = 1
                    /\ Len(indexed[d].terms) > 1
                    /\ indexed[d].terms[Len(indexed[d].terms)] = t
                    /\ \E p, r \in 1..(Len(indexed[e].terms) - 1) :
                          /\ indexed[e].terms[p] = t
                          /\ indexed[e].terms[r] = t
                          /\ indexed[e].terms[p + 1] # indexed[e].terms[r + 1]

\* the byte position where the block written after term t's block starts
NextBlockStart(lex, file, t) ==
    LET later == {lex.terms[u].offset * INT_BYTES :
                     u \in {v \in DOMAIN lex.terms : lex.terms[v].offset > lex.terms[t].offset}}
    IN  IF later = {} THEN Len(file) ELSE CHOOSE x \in later : \A y \in later : x <= y

\* the lexicon file and the inverted file on disk are those of one finished
\* build: no build is rewriting them and none has failed half way
IndexComplete == indexed # <<>>

\* C4: in the standard index, decoding doc_freq groups from a term's offset
\* consumes 2*doc_freq + collection_freq units and leaves the cursor at the start
\* of the block written next, or at the end of the file after the last block.
C4_StandardOffsetIntegrity ==
    (~nextword /\ IndexComplete) =>
        \A t \in DOMAIN lexicon_file.lexicon.terms :
            LET e == lexicon_file.lexicon.terms[t]
                r == get_corpus_term_pos_list(lexicon_file.lexicon, inverted_file, 0, t)
            IN  /\ r.pos = (e.offset + 2 * e.doc_freq + e.collection_freq) * INT_BYTES
                /\ r.pos = NextBlockStart(lexicon_file.lexicon, inverted_file, t)

\* a standard index of two terms whose first block holds two documents and three
\* or more positions
C4_Witness ==
    /\ ~nextword
    /\ IndexComplete
    /\ Cardinality(DOMAIN lexicon_file.lexicon.terms) = 2
    /\ \E t \in DOMAIN lexicon_file.lexicon.terms :
          /\ lexicon_file.lexicon.terms[t].offset = 0
          /\ lexicon_file.lexicon.terms[t].doc_freq = 2
          /\ lexicon_file.lexicon.terms[t].collection_freq >= 3

\* what get_doc_matches would return if the pair loop fetched every unique pair
AllPairsMatches(lex, file, terms) ==
    LET setup == setup_term_pairs(lex, NewQState, terms)
        pairs == setup.q.ordered_unique_term_pairs
        all == [k \in DOMAIN pairs |->
                   <<pairs[k][1], find_postings(lex, file, 0, pairs[k][1]).dict>>]
    IN  IF ~setup.ok \/ \E k \in DOMAIN all : all[k][2] = <<>> THEN {}
        ELSE merge_query_results([setup.q EXCEPT !.query_results = all]).doc_matches

\* C5: for a query of two or more terms the nextword resolver, which leaves the
\* pair loop once every query position is covered, returns what it would return
\* had it fetched every unique adjacent pair (the empty set if one has no postings).
C5_EarlyTerminationSameResult ==
    nextword =>
        \A i \in Answered :
            Len(QueryTerms(i)) > 1 =>
                Matches(i) = AllPairsMatches(lexicon_file.lexicon, inverted_file,
                                             QueryTerms(i))

\* the last query left the loop with a unique pair unfetched, and matched a document
C5_Witness ==
    /\ nextword
    /\ results # <<>>
    /\ qstate.query_terms = QueryTerms(Len(results))
    /\ Len(qstate.query_terms) > 1
    /\ Len(fetched) < Len(qstate.ordered_unique_term_pairs)
    /\ StopsEarly(qstate.covered)
    /\ Matches(Len(results)) # {}

\* collection_freq of the first term of a fetched pair
FirstTermFreq(pair) == lexicon_file.lexicon.terms[pair[1]].collection_freq

\* C6: in the nextword resolver the unique pairs of a query are fetched in
\* ascending order of the first term's collection_freq: a pair fetched earlier
\* has a first term at most as frequent as that of a pair fetched later.
C6_FetchedAscending ==
    (nextword /\ Len(fetched) > 1) =>
        \A i, j \in DOMAIN fetched :
            i < j => FirstTermFreq(fetched[i]) <= FirstTermFreq(fetched[j])

\* C7: in the lexicon of a whole index of either builder, doc_freq is the number of documents that
\* contain the term and collection_freq the number of its occurrences.
C7_Frequencies ==
    IndexComplete =>
        \A t \in DOMAIN lexicon_file.lexicon.terms :
            /\ lexicon_file.lexicon.terms[t].doc_freq = Cardinality(DocsContaining(t))
            /\ lexicon_file.lexicon.terms[t].collection_freq = Occurrences(t)

\* the query has a term that is not in the lexicon
HasAbsentTerm(terms) ==
    \E k \in DOMAIN terms : terms[k] \notin DOMAIN lexicon_file.lexicon.terms

\* C8: a query with a term absent from the lexicon yields the empty match set and
\* raises no error, under both resolvers, wherever the term stands in the query.
C8_AbsentTermNoMatch ==
    lexicon_file.written =>
        /\ \A i \in Answered : HasAbsentTerm(QueryTerms(i)) => Matches(i) = {}
        /\ (pc = "error" /\ Len(results) < Len(queries))
              => ~HasAbsentTerm(QueryTerms(Len(results) + 1))

\* a nextword query of three terms was answered whose middle term alone is absent
C8_Witness ==
    /\ nextword
    /\ lexicon_file.written
    /\ \E i \in Answered :
          /\ Len(QueryTerms(i)) = 3
          /\ QueryTerms(i)[1] \in DOMAIN lexicon_file.lexicon.terms
          /\ QueryTerms(i)[2] \notin DOMAIN lexicon_file.lexicon.terms
          /\ QueryTerms(i)[3] \in DOMAIN lexicon_file.lexicon.terms
          /\ Matches(i) = {}

\* the fields of a line of text
RECURSIVE SplitText(_, _)
SplitText(s, sep) ==
    IF sep \notin Range(s) THEN <<s>>
    ELSE LET k == CHOOSE i \in DOMAIN s : s[i] = sep /\ \A j \in 1..(i - 1) : s[j] # sep
         IN  <<SubSeq(s, 1, k - 1)>> \o SplitText(SubSeq(s, k + 1, Len(s)), sep)

\* C9: the results file holds one line per query, in query order; line i is
\* Q<query_id> followed by a comma and the comma separated P<doc_id> of the match
\* set in strictly ascending numeric order; with no match nothing follows the comma.
C9_ResultLines ==
    results_file.written =>
        /\ Len(results_file.lines) = Len(queries)
        /\ \A i \in DOMAIN queries :
              LET fields == SplitText(results_file.lines[i], ChComma)
                  ids == Tail(fields)
              IN  /\ Len(fields) >= 2
                  /\ fields[1] = <<ChQ>> \o Str(queries[i][1])
                  /\ QueryTerms(i) = <<>> => Matches(i) = {}
                  /\ IF Matches(i) = {} THEN ids = <<<<>>>>
                     ELSE /\ \A k \in DOMAIN ids :
                                /\ ids[k] # <<>>
                                /\ Head(ids[k]) = ChP
                                /\ ParseInt(Tail(ids[k])).ok
                                /\ Tail(ids[k]) = Str(ParseInt(Tail(ids[k])).val)
                          /\ {ParseInt(Tail(ids[k])).val : k \in DOMAIN ids} = Matches(i)
                          /\ \A k \in 1..(Len(ids) - 1) :
                                ParseInt(Tail(ids[k])).val < ParseInt(Tail(ids[k + 1])).val

\* two queries were answered: the first matched both documents, the second none
C9_Witness ==
    /\ results_file.written
    /\ Len(queries) = 2
    /\ Cardinality(Matches(1)) = 2
    /\ Matches(2) = {}
    /\ queries[1][1] > queries[2][1]

\* the integer fits the 4-byte unsigned width: it is in 0..2^32-1
FitsWidth(p) == ~p.neg /\ Len(p.mag) <= INT_BYTES

\* C10: write_int of an integer outside 0..2^32-1 raises and leaves the file and
\* current_offset as they were; an integer inside is appended as one unit of
\* INT_BYTES bytes and read_int reads it back unchanged.
C10_WriteIntWidth ==
    LET fitting == {k \in DOMAIN int_args : FitsWidth(int_args[k])}
    IN  /\ current_offset = Cardinality(fitting)
        /\ Len(inverted_file) = INT_BYTES * Cardinality(fitting)
        /\ (pc = "error") = (fitting # DOMAIN int_args)
        /\ pc = "error" => (error = "OverflowError" /\ fitting = 1..(Len(int_args) - 1))
        /\ \A k \in DOMAIN results : results[k] = int_args[k]

\* 2^32 - 1 was written as one unit, then the write of 2^32 raised
C10_Witness ==
    /\ pc = "error"
    /\ int_args = <<[neg |-> FALSE, mag |-> <<255, 255, 255, 255>>],
                    [neg |-> FALSE, mag |-> <<1, 0, 0, 0, 0>>]>>
    /\ current_offset = 1
    /\ inverted_file = <<255, 255, 255, 255>>

-----------------------------------------------------------------------------
(* The index builder and the resolvers over a given record file: the record
   file exists already, so that build_index reads lines RecordBuilder did not
   write *)

MaxRecords == 2
MaxRecQueryLen == 3

\* a field that int() rejects
NotAnInt == <<120>>

\* a field of one digit more than int() converts
TooManyDigits == [i \in 1..(int_max_str_digits + 1) |-> ChZero + 1]

\* the record lines a given record file is made of, as comma separated fields:
\* lines of the standard layout (one with a position listed twice, one whose
\* integers int() reads past a leading space and a sign), lines of the nextword
\* layout, and lines that are short of fields or hold a field that is not an
\* integer or has too many digits
RecordLines ==
    { <<TermA, Str(10), Str(0)>>,
      <<TermB, Str(10), Str(1)>>,
      <<TermB, Str(10), Str(1), Str(1)>>,
      <<TermA, <<32>> \o Str(2), <<ChPlus>> \o Str(0)>>,
      <<TermA, <<ChZero>>, TermB, Str(10), Str(0)>>,
      <<TermB, <<ChZero>>, EndMark, Str(10), Str(1)>>,
      <<TermA>>,
      <<TermA, Str(10)>>,
      <<TermA, NotAnInt, Str(0)>>,
      <<TermB, Str(10), NotAnInt>>,
      <<TermB, TooManyDigits, Str(0)>>,
      <<TermA, <<ChZero>>, TermB, Str(10)>>,
      <<TermA, <<ChZero>>, TermB, NotAnInt, Str(0)>> }

RecordFiles == SeqsUpTo(RecordLines, MaxRecords)

\* the query files put to an index built from a given record file: one query
RecQueryFiles ==
    {<<<<QueryIdList[1], t>>>> : t \in SeqsUpTo(Terms, MaxRecQueryLen)}

RecInit ==
    /\ nextword \in BOOLEAN
    /\ collection = <<>>
    /\ id_line = <<>>
    /\ rebuild_index = TRUE
    /\ metadata_line \in BOOLEAN
    /\ record_file \in RecordFiles
    /\ exists = [record_file |-> TRUE, inverted_file |-> FALSE]
    /\ inverted_file = <<>>
    /\ lexicon_file = NotWritten
    /\ indexed = <<>>
    /\ pc = "metadata"
    /\ error = ""
    /\ line_no = 1
    /\ lexicon = NewBuilder.lexicon
    /\ term_ids_inv = NewBuilder.term_ids_inv
    /\ current_offset = NewBuilder.current_offset
    /\ prev_next_term = NewBuilder.prev_next_term
    /\ current_first_term = NewBuilder.current_first_term
    /\ queries = <<>>
    /\ results = <<>>
    /\ file_pos = 0
    /\ qstate = NewQState
    /\ fetched = <<>>
    /\ results_file = NotWritten
    /\ int_args = <<>>

RecNext ==
    \/ ReadMetadata
    \/ ProcessRecord
    \/ ProcessNextwordRecord
    \/ FinishBuild
    \/ \E qs \in RecQueryFiles : ReadQueries(qs)
    \/ ProcessQuery
    \/ WriteResults

RecSpec == RecInit /\ [][RecNext]_vars

\* the fields a line of the variant's layout has before its positions
HeaderFields(nw) == IF nw THEN 4 ELSE 2

\* a malformed record line: too few fields for the variant (a record has a
\* position at least), or a document id or a position that is not an integer
Malformed(line, nw) ==
    \/ Len(line) <= HeaderFields(nw)
    \/ \E i \in HeaderFields(nw)..Len(line) : ~ParseInt(line[i]).ok

\* C11: a malformed record line aborts the build: IndexBuilder.build raises on
\* that line, no later line is processed and the lexicon file is never written.
C11_MalformedLineAborts ==
    \A k \in 1..(line_no - 1) :
        (k <= Len(record_file) /\ Malformed(record_file[k], nextword))
            => /\ pc = "error"
               /\ line_no = k + 1
               /\ lexicon_file = NotWritten

\* C12: processing queries leaves the inverted file and the lexicon's terms and
\* term_ids as the build left them: no step of the query stage, with either
\* resolver, changes the store or a term entry, offset, frequency or term id.
C12_QueriesLeaveIndex ==
    [][(pc = "built" \/ pc = "query") =>
          (inverted_file' = inverted_file /\ lexicon_file' = lexicon_file
           /\ lexicon' = lexicon)]_vars

\* two queries were answered by the nextword resolver over a store that is not
\* empty, the first with a match and the second for a term the lexicon lacks
C12_Witness ==
    /\ pc = "done"
    /\ nextword
    /\ Len(results) = 2
    /\ results[1][2] # {}
    /\ \E t \in Range(queries[2][2]) : t \notin DOMAIN lexicon_file.lexicon.terms
    /\ inverted_file # <<>>
    /\ file_pos > 0

\* the lines of the record file that belong to term t (its first field)
LinesOf(t) == {k \in DOMAIN record_file : record_file[k][1] = t}

\* the first line of term t in the record file
FirstLine(t) == CHOOSE k \in LinesOf(t) : \A j \in LinesOf(t) : k <= j

RECURSIVE SumOver(_, _)
SumOver(S, f) ==
    IF S = {} THEN 0 ELSE LET x == CHOOSE y \in S : TRUE IN f[x] + SumOver(S \ {x}, f)

\* the units the records of term t take in the store: per record the document
\* id, the number of positions and the positions, and in the nextword layout a
\* term id and a document count per next term
TermUnits(t) ==
    IF ~nextword THEN SumOver(LinesOf(t), [k \in LinesOf(t) |-> Len(record_file[k])])
    ELSE SumOver(LinesOf(t), [k \in LinesOf(t) |-> Len(record_file[k]) - 2])
         + 2 * Cardinality({record_file[k][3] : k \in LinesOf(t)})

\* the term blocks lie in the store in stream order, each starting where the
\* block before it ends, the first at unit 0
BlocksContiguous ==
    \A u \in DOMAIN lexicon.terms :
        IF \A t \in DOMAIN lexicon.terms : FirstLine(u) <= FirstLine(t)
        THEN lexicon.terms[u].offset = 0
        ELSE \E t \in DOMAIN lexicon.terms :
                /\ FirstLine(t) < FirstLine(u)
                /\ \A w \in DOMAIN lexicon.terms :
                       FirstLine(w) < FirstLine(u) => FirstLine(w) <= FirstLine(t)
                /\ lexicon.terms[u].offset = lexicon.terms[t].offset + TermUnits(t)

\* one step of the build as C13 wants it
OffsetStep ==
    /\ Len(inverted_file') = current_offset' * INT_BYTES
    /\ current_offset' >= current_offset
    /\ Len(inverted_file') >= Len(inverted_file)
    /\ SubSeq(inverted_file', 1, Len(inverted_file)) = inverted_file
    /\ \A t \in DOMAIN lexicon'.terms :
           IF t \in DOMAIN lexicon.terms
           THEN lexicon'.terms[t].offset = lexicon.terms[t].offset
           ELSE lexicon'.terms[t].offset =
                    (IF nextword THEN current_offset' ELSE current_offset)
    /\ BlocksContiguous'

\* C13: in every step of a build over the sorted record file current_offset is
\* the number of units in the store and does not decrease, the store only grows
\* at its end, a term gets as offset the unit count at the start of its block
\* (standard: before the record is written; nextword: once the buffered group
\* of the term before is flushed) and keeps it, and the blocks lie contiguous
\* and in stream order.
C13_OffsetBookkeeping == [][(pc = "index") => OffsetStep]_vars

\* the nextword builder has opened the block of a second term behind the
\* flushed groups of the first
C13_Witness ==
    /\ pc = "index"
    /\ nextword
    /\ Cardinality(DOMAIN lexicon.terms) = 2
    /\ \E t \in DOMAIN lexicon.terms : lexicon.terms[t].offset = current_offset
                                        /\ current_offset > 0

\* the next terms that follow first term t in the first m lines of the record
\* file, each once, in stream order
NextTermsOf(t, m) ==
    LET ks == Sorted({k \in LinesOf(t) : k <= m})
    IN  Distinct([i \in DOMAIN ks |-> record_file[ks[i]][3]])

\* the documents and position lists of the pair (t, n) in the first m lines
PairRecords(t, n, m) ==
    LET ks == Sorted({k \in LinesOf(t) : k <= m /\ record_file[k][3] = n})
    IN  [i \in DOMAIN ks |->
            <<ParseInt(record_file[ks[i]][4]).val,
              ParseInts(SubSeq(record_file[ks[i]], 5, Len(record_file[ks[i]]))).vals>>]

\* the next terms of the n groups that lie in the store from byte position pos
RECURSIVE GroupTerms(_, _)
GroupTerms(pos, n) ==
    IF n <= 0 THEN <<>>
    ELSE LET next_term_id == read_int(inverted_file, pos)
             pair_doc_freq == read_int(inverted_file, next_term_id.pos)
         IN  <<lexicon.term_ids[next_term_id.val]>>
             \o GroupTerms(SkipPairDocs(inverted_file, pair_doc_freq.pos, pair_doc_freq.val),
                           n - 1)

\* the groups written for term t in the store
WrittenGroups(t) ==
    GroupTerms(lexicon.terms[t].offset * INT_BYTES, lexicon.terms[t].num_next_terms)

\* C14: the nextword builder over a sorted record file buffers one pair group,
\* that of the last line processed, with the documents of that pair read so
\* far; every pair before it stands in the store once, in the block of its own
\* first term, and a term's num_next_terms counts its groups in the store: all
\* its next terms once the build has ended.
C14_FlushDiscipline ==
    (nextword /\ pc \in {"index", "built"}) =>
        LET m == line_no - 1
            held == IF pc = "index" THEN 1 ELSE 0
        IN  IF m = 0 THEN prev_next_term = NoBuffer /\ DOMAIN lexicon.terms = {}
            ELSE
            /\ DOMAIN lexicon.terms = {record_file[k][1] : k \in 1..m}
            /\ current_first_term = record_file[m][1]
            /\ prev_next_term =
                   [term |-> record_file[m][3],
                    doc_ids |-> PairRecords(record_file[m][1], record_file[m][3], m)]
            /\ \A t \in DOMAIN lexicon.terms :
                   LET all == NextTermsOf(t, m)
                       flushed == IF t = record_file[m][1]
                                  THEN SubSeq(all, 1, Len(all) - held) ELSE all
                   IN  /\ lexicon.terms[t].num_next_terms = Len(flushed)
                       /\ WrittenGroups(t) = flushed

\* the build has ended: the first term of the store has two groups and a later
\* term one, flushed at the end of the stream
C14_Witness ==
    /\ nextword
    /\ pc = "built"
    /\ \E t, u \in DOMAIN lexicon.terms :
          /\ lexicon.terms[t].offset = 0
          /\ lexicon.terms[t].num_next_terms = 2
          /\ lexicon.terms[u].offset > 0
          /\ lexicon.terms[u].num_next_terms = 1

\* the next terms a pair can name: the terms and the end of document mark
NextTerms == Terms \cup {EndMark}

\* C15: over the finished nextword index, find_postings of a pair gives the
\* documents of the pair's records in the record file, in stream order, each
\* with the position list of its record, and the empty mapping for a pair the
\* record file does not hold; the postings the resolver keeps for a fetched
\* pair are those.
C15_PairRoundTrip ==
    (nextword /\ IndexComplete) =>
        /\ pc = "built" =>
              \A t \in Terms, n \in NextTerms :
                  LET found == find_postings(lexicon_file.lexicon, inverted_file, 0, <<t, n>>)
                  IN  /\ found.raised = ""
                      /\ found.dict = PairRecords(t, n, Len(record_file))
        /\ pc = "query" =>
              \A i \in DOMAIN qstate.query_results :
                  qstate.query_results[i][2] =
                      PairRecords(qstate.query_results[i][1][1],
                                  qstate.query_results[i][1][2], Len(record_file))

\* the index is built and a pair stands in two documents, twice in one of them
C15_Witness ==
    /\ nextword
    /\ pc = "built"
    /\ \E t \in Terms, n \in NextTerms :
          LET found == find_postings(lexicon_file.lexicon, inverted_file, 0, <<t, n>>)
          IN  /\ Len(found.dict) = 2
              /\ \E i \in DOMAIN found.dict : Len(found.dict[i][2]) = 2

\* the byte position at which the block of term t ends, by the lexicon counters
\* and the number of the term's records in the record file
BlockEnd(t) ==
    (lexicon_file.lexicon.terms[t].offset
     + 2 * lexicon_file.lexicon.terms[t].num_next_terms
     + 2 * Cardinality(LinesOf(t))
     + lexicon_file.lexicon.terms[t].collection_freq) * INT_BYTES

\* C16: over the finished nextword index, find_postings for a term of the
\* lexicon and any wanted next term (one that follows it, one that does not, or
\* None) leaves the cursor at offset + 2*num_next_terms + 2*(records of the
\* term) + collection_freq units, the start of the next block or the end of the
\* store, and for a wanted next term the result holds the positions of that
\* pair's group alone; the cursor a query leaves behind is such a position.
C16_SkipScanCursor ==
    (nextword /\ IndexComplete) =>
        /\ pc = "built" =>
              \A t \in DOMAIN lexicon_file.lexicon.terms, n \in NextTerms \cup {None} :
                  LET found == find_postings(lexicon_file.lexicon, inverted_file, 0, <<t, n>>)
                  IN  /\ found.raised = ""
                      /\ found.pos = BlockEnd(t)
                      /\ found.pos = NextBlockStart(lexicon_file.lexicon, inverted_file, t)
                      /\ n # None => found.dict = PairRecords(t, n, Len(record_file))
        /\ (pc = "query" /\ fetched # <<>>
              /\ fetched[Len(fetched)][1] \in DOMAIN lexicon_file.lexicon.terms) =>
              file_pos = BlockEnd(fetched[Len(fetched)][1])

\* the index is built; the first block holds two groups, the first of them with
\* two documents, so that a scan for the second group skips payload
C16_Witness ==
    /\ nextword
    /\ pc = "built"
    /\ \E t \in DOMAIN lexicon_file.lexicon.terms :
          /\ lexicon_file.lexicon.terms[t].offset = 0
          /\ lexicon_file.lexicon.terms[t].num_next_terms = 2
          /\ Len(PairRecords(t, NextTermsOf(t, Len(record_file))[1], Len(record_file))) = 2
          /\ BlockEnd(t) < Len(inverted_file)

\* the terms of the first m lines in the order they are first seen, the first
\* term of a line before its next term
FirstSeen(m) ==
    Distinct(Concat([k \in 1..m |-> <<record_file[k][1], record_file[k][3]>>]))

\* the next term ids of the n groups that lie in the store from byte position pos
RECURSIVE GroupIds(_, _)
GroupIds(pos, n) ==
    IF n <= 0 THEN {}
    ELSE LET next_term_id == read_int(inverted_file, pos)
             pair_doc_freq == read_int(inverted_file, next_term_id.pos)
         IN  {next_term_id.val}
             \cup GroupIds(SkipPairDocs(inverted_file, pair_doc_freq.pos, pair_doc_freq.val),
                           n - 1)

\* the next term ids written to the store so far
WrittenIds ==
    UNION {GroupIds(lexicon.terms[t].offset * INT_BYTES, lexicon.terms[t].num_next_terms) :
              t \in DOMAIN lexicon.terms}

\* C17: after any number of lines of the nextword build, term_ids and
\* term_ids_inv are inverse to each other, the ids are 0..n-1, the term of id i
\* is the (i+1)th term first seen in the lines read (first term before next
\* term), so that an id never changes, and every next term id in the store is
\* an id of term_ids.
C17_TermIdTable ==
    (nextword /\ pc \in {"index", "built"}) =>
        LET seen == FirstSeen(line_no - 1)
            term_ids == lexicon.term_ids
        IN  /\ DOMAIN term_ids = 0..(Len(seen) - 1)
            /\ \A i \in DOMAIN term_ids : term_ids[i] = seen[i + 1]
            /\ DOMAIN term_ids_inv = Range(seen)
            /\ \A t \in DOMAIN term_ids_inv :
                   term_ids_inv[t] \in DOMAIN term_ids /\ term_ids[term_ids_inv[t]] = t
            /\ \A i \in DOMAIN term_ids : term_ids_inv[term_ids[i]] = i
            /\ WrittenIds \subseteq DOMAIN term_ids

\* three ids are assigned and the term of id 0 was seen again after that
C17_Witness ==
    /\ nextword
    /\ pc = "index"
    /\ line_no = 4
    /\ Cardinality(DOMAIN lexicon.term_ids) = 3
    /\ record_file[3][1] = lexicon.term_ids[0]
    /\ WrittenIds # {}

\* C18: the nextword build of a record file that holds the metadata line and
\* no record ends without error, with nothing written to the store and a
\* lexicon file whose terms and term_ids are empty.
C18_EmptyStreamBuilds ==
    (nextword /\ metadata_line /\ record_file = <<>>
        /\ pc \notin {"metadata", "index"}) =>
        /\ pc # "error"
        /\ error = ""
        /\ inverted_file = <<>>
        /\ current_offset = 0
        /\ lexicon_file = [written |-> TRUE,
                           lexicon |-> [terms |-> EmptyDict, term_ids |-> EmptyDict]]

\* a record file of the standard layout as the index builder expects it: the
\* lines of a term together, one line per term and document
OneLinePerTermAndDoc ==
    /\ \A j, k \in DOMAIN record_file :
          (j < k /\ record_file[j][1] = record_file[k][1])
              => /\ ParseInt(record_file[j][2]).val # ParseInt(record_file[k][2]).val
                 /\ \A l \in j..k : record_file[l][1] = record_file[j][1]

\* the document ids of the record file
RecordDocs == {ParseInt(record_file[k][2]).val : k \in DOMAIN record_file}

\* the position entries the record file lists for term t in document d, in
\* order, an entry listed twice taken twice
PositionEntries(t, d) ==
    Concat([k \in DOMAIN record_file |->
               IF record_file[k][1] = t /\ ParseInt(record_file[k][2]).val = d
               THEN ParseInts(SubSeq(record_file[k], 3, Len(record_file[k]))).vals
               ELSE <<>>])

\* the entries of ps equal to p
RECURSIVE EntriesEqual(_, _)
EntriesEqual(ps, p) ==
    IF ps = <<>> THEN <<>>
    ELSE (IF Head(ps) = p THEN <<p>> ELSE <<>>) \o EntriesEqual(Tail(ps), p)

\* the chain seeded in document d, carried through the terms rest: each term
\* adds every entry of its own that is one past the chain's last position
RECURSIVE MergedChain(_, _, _)
MergedChain(chain, d, rest) ==
    IF rest = <<>> THEN chain
    ELSE MergedChain(chain \o EntriesEqual(PositionEntries(Head(rest), d),
                                           chain[Len(chain)] + 1),
                     d, Tail(rest))

\* a term of rest adds more than one entry to the chain
RECURSIVE MergesAt(_, _, _)
MergesAt(chain, d, rest) ==
    /\ rest # <<>>
    /\ LET more == EntriesEqual(PositionEntries(Head(rest), d), chain[Len(chain)] + 1)
       IN  Len(more) > 1 \/ MergesAt(chain \o more, d, Tail(rest))

\* the seeds of the chains of document d for the query terms
Seeds(terms, d) == Range(PositionEntries(terms[1], d))

\* the documents with a chain whose final length is the query length
MergeMatches(terms) ==
    IF terms = <<>> THEN {}
    ELSE {d \in RecordDocs :
             \E p \in Seeds(terms, d) : Len(MergedChain(<<p>>, d, Tail(terms))) = Len(terms)}

\* the standard resolver has answered queries over the index of a record file
\* of the expected shape
StdAnsweredOverRecords ==
    /\ ~nextword
    /\ lexicon_file.written
    /\ pc \in {"query", "done"}
    /\ OneLinePerTermAndDoc

\* every line of the record file lists a position once, as write_record writes
\* it (the indices of enumerate(terms), each once)
DistinctPositions ==
    \A k \in DOMAIN record_file :
        LET ps == ParseInts(SubSeq(record_file[k], 3, Len(record_file[k]))).vals
        IN  \A i, j \in DOMAIN ps : i # j => ps[i] # ps[j]

\* over a record file that lists every position once, no term adds more than
\* one entry to a chain: at most one occurrence of the next term stands at the
\* chain's last position + 1, and the chain of a reported document has one
\* entry per query term
SingleExtensionPerTerm ==
    (StdAnsweredOverRecords /\ DistinctPositions) =>
        \A i \in Answered :
            /\ Matches(i) = MergeMatches(QueryTerms(i))
            /\ \A d \in RecordDocs :
                  QueryTerms(i) # <<>> =>
                      \A p \in Seeds(QueryTerms(i), d) :
                          /\ ~MergesAt(<<p>>, d, Tail(QueryTerms(i)))
                          /\ Len(MergedChain(<<p>>, d, Tail(QueryTerms(i))))
                                 <= Len(QueryTerms(i))

\* a query of two terms was answered over such a record file and reported a
\* document
SingleExtensionReported ==
    /\ StdAnsweredOverRecords
    /\ DistinctPositions
    /\ \E i \in Answered : Len(QueryTerms(i)) = 2 /\ Matches(i) # {}

\* a term added two entries to a chain: the record file lists a position twice
RepeatedPositionMerges ==
    /\ StdAnsweredOverRecords
    /\ ~DistinctPositions
    /\ \E i \in Answered : \E d \in RecordDocs :
          /\ QueryTerms(i) # <<>>
          /\ \E p \in Seeds(QueryTerms(i), d) : MergesAt(<<p>>, d, Tail(QueryTerms(i)))

-----------------------------------------------------------------------------
(* Nextword runs with one query of up to PairMaxQueryLen terms *)

PairMaxTokens == 4
PairMaxQueryLen == 4

\* the query files: one query of up to PairMaxQueryLen terms
PairQueryFiles ==
    {<<<<QueryIdList[1], t>>>> : t \in SeqsUpTo(Terms, PairMaxQueryLen)}

PairInit ==
    /\ nextword = TRUE
    /\ collection \in CollectionsUpTo(PairMaxTokens)
    /\ id_line = TagLine(collection)
    /\ rebuild_index = FALSE
    /\ StartsOn(FreshDirectory)

PairNext ==
    \/ BuildRecordFile
    \/ ReadMetadata
    \/ ProcessNextwordRecord
    \/ FinishBuild
    \/ \E qs \in PairQueryFiles : ReadQueries(qs)
    \/ ProcessQuery
    \/ WriteResults

PairSpec == PairInit /\ [][PairNext]_vars

-----------------------------------------------------------------------------
(* Runs with a query file of two queries of several terms *)

IsoMaxTokens == 2
IsoMaxQueryLen == 3
IsoMaxLaterLen == 2

\* the collections: NumDocs documents of IsoMaxTokens terms in total
IsoCollections ==
    {[i \in 1..NumDocs |-> [doc_id |-> DocIdList[i], terms |-> ts[i]]] :
        ts \in {x \in [1..NumDocs -> SeqsUpTo(Terms, IsoMaxTokens)] :
                   TotalLen(x) <= IsoMaxTokens}}

\* the query files: a query of up to IsoMaxQueryLen terms, then one of up to
\* IsoMaxLaterLen terms
IsoQueryFiles ==
    {<<<<QueryIdList[1], t1>>, <<QueryIdList[2], t2>>>> :
        t1 \in SeqsUpTo(Terms, IsoMaxQueryLen), t2 \in SeqsUpTo(Terms, IsoMaxLaterLen)}

IsoInit ==
    /\ nextword \in BOOLEAN
    /\ collection \in IsoCollections
    /\ id_line = TagLine(collection)
    /\ rebuild_index = FALSE
    /\ StartsOn(FreshDirectory)

IsoNext ==
    \/ BuildRecordFile
    \/ ReadMetadata
    \/ ProcessRecord
    \/ ProcessNextwordRecord
    \/ FinishBuild
    \/ \E qs \in IsoQueryFiles : ReadQueries(qs)
    \/ ProcessQuery
    \/ WriteResults

IsoSpec == IsoInit /\ [][IsoNext]_vars

\* what a resolver constructed afresh over the index returns for the terms
FreshOutcome(terms) ==
    get_doc_matches(nextword, lexicon_file.lexicon, inverted_file, 0, NewQState, terms)

\* what the resolver in use returns for the terms, with the cursor and the
\* per-query fields the earlier queries left
SharedOutcome(terms) ==
    get_doc_matches(nextword, lexicon_file.lexicon, inverted_file, file_pos, qstate, terms)

\* C20: the match set recorded for every query of the list is the one a fresh
\* resolver over the same index yields for it, and the query about to be
\* processed has the fresh resolver's outcome whatever cursor and per-query
\* fields the earlier queries left.
C20_QueryIsolation ==
    (pc = "query" \/ pc = "done") =>
        /\ \A i \in Answered :
              /\ FreshOutcome(QueryTerms(i)).raised = ""
              /\ Matches(i) = FreshOutcome(QueryTerms(i)).doc_matches
        /\ Len(results) < Len(queries) =>
              \E now \in {SharedOutcome(QueryTerms(Len(results) + 1))} :
              \E fresh \in {FreshOutcome(QueryTerms(Len(results) + 1))} :
                  /\ now.doc_matches = fresh.doc_matches
                  /\ now.raised = fresh.raised

\* the nextword resolver answered two queries: the first, of three terms, left
\* fetched postings and covered flags behind and returned early with no match,
\* the second, of several terms, has a match
C20_Witness ==
    /\ nextword
    /\ pc = "done"
    /\ Len(results) = 2
    /\ Len(QueryTerms(1)) = 3
    /\ Matches(1) = {}
    /\ \E first \in {FreshOutcome(QueryTerms(1))} :
          /\ first.q.query_results # <<>>
          /\ TRUE \in Range(first.q.covered)
          /\ FALSE \in Range(first.q.covered)
          /\ first.pos > 0
    /\ Len(QueryTerms(2)) >= 2
    /\ Matches(2) # {}

====
